---- MODULE Spec2Model ----
(***************************************************************************)
(* Scene graph of rust-wgpu-msm (src/src/scenegraph.rs): the node tree,    *)
(* the name lookups, the render/light iterators, the render-node vertex    *)
(* buffer and the light bind group, and the application around it          *)
(* (src/src/application.rs, src/src/renderer.rs): start-up and the frame   *)
(* drawn on a redraw request, as a state machine.                          *)
(*                                                                         *)
(* The tree is an arena: nodes[i] is the node with id i, nodes[1] is the   *)
(* root, and a GroupNode's children field is the ordered Vec of its        *)
(* children's ids.  A node dropped by the code is never put in the arena.  *)
(***************************************************************************)
EXTENDS Integers, Sequences, FiniteSets, TLC

VARIABLES
    nodes,                    \* SceneGraph.root and everything it owns
    light_bind_group,         \* SceneGraph.light_bind_group   (Option)
    light_bind_group_layout,  \* SceneGraph.light_bind_group_layout (Option)
    lights_dirty,             \* SceneGraph.lights_dirty
    on_frame_update_callback, \* SceneGraph.on_frame_update_callback (Option)
    panicked,                 \* the process aborted on an unwrap of None
    ret,                      \* what the last call did and returned
    iter,                     \* the live iterator (its stack), if any
    yielded,                  \* the items the live iterator returned so far
    renderer,                 \* App.renderer: the proxy, or the Renderer built
    events                    \* user events sent to the event loop, not yet delivered

vars == <<nodes, light_bind_group, light_bind_group_layout, lights_dirty,
          on_frame_update_callback, panicked, ret, iter, yielded, renderer, events>>

graphVars == <<nodes, light_bind_group, light_bind_group_layout, lights_dirty>>
iterVars == <<iter, yielded>>
appVars == <<renderer, events>>
callbackVars == <<on_frame_update_callback>>

(***************************************************************************)
(* Bounds of the model.                                                    *)
(***************************************************************************)
\* nodes added below the root in Spec, SpecIter and SpecLights
MaxNodes == 3
\* nodes added below the root in SpecXform, where every matrix and mesh varies
MaxXfNodes == 2
\* how often next() is called again on an exhausted iterator
MaxNones == 2
\* nodes added below the root in SpecFrame
MaxFrameNodes == 2
\* nodes added below the root in SpecDraw
MaxDrawNodes == 3
\* nodes added below the root in SpecLightArray
MaxArrayNodes == 3
\* nodes added below the root in SpecDirty
MaxDirtyNodes == 2
\* nodes added below the root in SpecManyLights
MaxLightNodes == 4
\* nodes added below the root in SpecGrow
MaxGrowNodes == 3
\* nodes added below the root in SpecApp
MaxAppNodes == 2

(***************************************************************************)
(* Option<T>                                                               *)
(***************************************************************************)
None == <<>>
Some(x) == <<x>>
IsSome(o) == Len(o) = 1
Unwrap(o) == o[1]

(***************************************************************************)
(* glam::Mat4, column major: m[c][r] is row r of column c.                 *)
(***************************************************************************)
IDENTITY == <<<<1, 0, 0, 0>>, <<0, 1, 0, 0>>, <<0, 0, 1, 0>>, <<0, 0, 0, 1>>>>
\* Mat4::from_translation(Vec3::new(1, 0, 0))
TRANSLATE_X == <<<<1, 0, 0, 0>>, <<0, 1, 0, 0>>, <<0, 0, 1, 0>>, <<1, 0, 0, 1>>>>
\* Mat4::from_scale(Vec3::splat(2))
SCALE_2 == <<<<2, 0, 0, 0>>, <<0, 2, 0, 0>>, <<0, 0, 2, 0>>, <<0, 0, 0, 1>>>>

\* the matrices callers pass in
Matrices == {IDENTITY, TRANSLATE_X, SCALE_2}

\* Mat4 * Mat4
Mat4Mul(a, b) ==
    [c \in 1..4 |-> [r \in 1..4 |->
        a[1][r] * b[c][1] + a[2][r] * b[c][2] + a[3][r] * b[c][3] + a[4][r] * b[c][4]]]

\* Mat4::transform_point3: the point is extended by w = 1, no perspective divide
transform_point3(m, p) ==
    [r \in 1..3 |-> m[1][r] * p[1] + m[2][r] * p[2] + m[3][r] * p[3] + m[4][r]]

(***************************************************************************)
(* model::Vertex and the meshes callers pass in.                           *)
(***************************************************************************)
Vertex(pos, tex_coords, normal) ==
    [pos |-> pos, tex_coords |-> tex_coords, normal |-> normal]

\* the first two vertices of model::CUBE_VERTICES
CubeEdge ==
    <<Vertex(<<-1, -1, 1>>, <<0, 0>>, <<0, 0, 1>>),
      Vertex(<<1, -1, 1>>, <<1, 0>>, <<0, 0, 1>>)>>
\* a single vertex off every axis
OneVertex == <<Vertex(<<1, 2, 3>>, <<1, 1>>, <<0, 1, 0>>)>>

Mesh(vertices, indices) == [vertices |-> vertices, indices |-> indices]
Meshes == {Mesh(CubeEdge, <<0, 1, 0>>), Mesh(OneVertex, <<0>>)}

(***************************************************************************)
(* light::Light.  calculate_matrix is projection * look_at_rh(eye, center, *)
(* Y) with constant projection, center and up: it is a function of the eye *)
(* position model * pos alone, and is kept as that position.               *)
(***************************************************************************)
Light(pos, color, light_number) ==
    [pos |-> pos, color |-> color, target_view |-> light_number]

calculate_matrix(light, model) ==
    [look_at_rh_eye |-> transform_point3(model, light.pos),
     center |-> <<0, 0, -15>>]

\* faulty variant: the view-projection is computed from the light's position
\* alone, without the model matrix
from_light_unmoved(light, model) ==
    [pos |-> light.pos \o <<1>>,
     color |-> light.color,
     model_mat |-> model,
     view_proj |-> calculate_matrix(light, IDENTITY)]

\* LightUniform::from_light
from_light(light, model) ==
    [pos |-> light.pos \o <<1>>,
     color |-> light.color,
     model_mat |-> model,
     view_proj |-> calculate_matrix(light, model)]

\* ShadowMap::MAX_LIGHTS: the array layers of the shadow map texture
MAX_LIGHTS == 3

\* LightUniform::get_bind_group_layout: binding 0 has count NonZeroU32::new(n)
get_bind_group_layout(light_count) ==
    [binding0_count |-> IF light_count = 0 THEN None ELSE Some(light_count)]

(***************************************************************************)
(* The node variants.  Every node is a record of the same shape; the       *)
(* fields a variant does not have are empty.                               *)
(***************************************************************************)
NoLight == <<>>

\* NodeData::new gives the identity matrix
GroupNode_new(name) ==
    [kind |-> "GroupNode", name |-> name, matrix |-> IDENTITY, children |-> <<>>,
     vertices |-> <<>>, vertex_buffer |-> <<>>, index_buffer |-> <<>>,
     num_elements |-> 0, material_bind_group |-> None, light |-> NoLight]

LightNode_new(name, light) ==
    [kind |-> "LightNode", name |-> name, matrix |-> IDENTITY, children |-> <<>>,
     vertices |-> <<>>, vertex_buffer |-> <<>>, index_buffer |-> <<>>,
     num_elements |-> 0, material_bind_group |-> None, light |-> light]

\* RenderNode::new: both buffers are created from the slices as given
RenderNode_new(name, vertices, indices, material_bind_group) ==
    [kind |-> "RenderNode", name |-> name, matrix |-> IDENTITY, children |-> <<>>,
     vertices |-> vertices, vertex_buffer |-> vertices, index_buffer |-> indices,
     num_elements |-> Len(indices), material_bind_group |-> material_bind_group,
     light |-> NoLight]

\* faulty variant: the matrix is applied to the buffer's current content, not to the
\* untransformed vertices
RenderNode_set_matrix_incremental(node, matrix) ==
    [node EXCEPT
        !.matrix = matrix,
        !.vertex_buffer =
            [i \in 1..Len(node.vertex_buffer) |->
                [node.vertex_buffer[i] EXCEPT
                    !.pos = transform_point3(matrix, node.vertex_buffer[i].pos)]]]

\* faulty variant: the transformed vertices replace the stored ones
RenderNode_set_matrix_in_place(node, matrix) ==
    LET moved == [i \in 1..Len(node.vertices) |->
                    [node.vertices[i] EXCEPT
                        !.pos = transform_point3(matrix, node.vertices[i].pos)]]
    IN  [node EXCEPT !.matrix = matrix, !.vertices = moved, !.vertex_buffer = moved]

\* RenderNode::set_matrix: the matrix is stored and the vertex buffer is created
\* anew from the untransformed vertices; tex_coords and normal are copied
RenderNode_set_matrix(node, matrix) ==
    [node EXCEPT
        !.matrix = matrix,
        !.vertex_buffer =
            [i \in 1..Len(node.vertices) |->
                [node.vertices[i] EXCEPT
                    !.pos = transform_point3(matrix, node.vertices[i].pos)]]]

\* RenderNode::new_with_matrix
RenderNode_new_with_matrix(name, vertices, indices, material_bind_group, matrix) ==
    RenderNode_set_matrix(
        RenderNode_new(name, vertices, indices, material_bind_group), matrix)

\* GroupNode::set_matrix and NodeData::set_matrix
NodeData_set_matrix(node, matrix) == [node EXCEPT !.matrix = matrix]

(***************************************************************************)
(* SceneGraph::find_child_deep: the root is on the stack first; the popped *)
(* node's name is compared whatever its kind, a group's children are       *)
(* pushed in order.  pops counts the iterations of the while loop.         *)
(***************************************************************************)
\* faulty variant: only the names of leaves are compared, a group is only descended into
RECURSIVE find_child_deep_loop_leaves_only(_, _, _, _)
find_child_deep_loop_leaves_only(ns, stack, name, pops) ==
    IF stack = <<>> THEN [node |-> None, pops |-> pops]
    ELSE LET node == stack[Len(stack)]
             rest == SubSeq(stack, 1, Len(stack) - 1)
         IN  IF ns[node].kind = "GroupNode"
             THEN find_child_deep_loop_leaves_only(
                      ns, rest \o ns[node].children, name, pops + 1)
             ELSE IF ns[node].name = name
             THEN [node |-> Some(node), pops |-> pops + 1]
             ELSE find_child_deep_loop_leaves_only(ns, rest, name, pops + 1)

\* faulty variant: a queue instead of a stack: the node pushed first is visited first
RECURSIVE find_child_deep_loop_fifo(_, _, _, _)
find_child_deep_loop_fifo(ns, stack, name, pops) ==
    IF stack = <<>> THEN [node |-> None, pops |-> pops]
    ELSE LET node == Head(stack)
             rest == Tail(stack)
         IN  IF ns[node].name = name
             THEN [node |-> Some(node), pops |-> pops + 1]
             ELSE IF ns[node].kind = "GroupNode"
             THEN find_child_deep_loop_fifo(ns, rest \o ns[node].children, name, pops + 1)
             ELSE find_child_deep_loop_fifo(ns, rest, name, pops + 1)

RECURSIVE find_child_deep_loop(_, _, _, _)
find_child_deep_loop(ns, stack, name, pops) ==
    IF stack = <<>> THEN [node |-> None, pops |-> pops]
    ELSE LET node == stack[Len(stack)]
             rest == SubSeq(stack, 1, Len(stack) - 1)
         IN  IF ns[node].name = name
             THEN [node |-> Some(node), pops |-> pops + 1]
             ELSE IF ns[node].kind = "GroupNode"
             THEN find_child_deep_loop(ns, rest \o ns[node].children, name, pops + 1)
             ELSE find_child_deep_loop(ns, rest, name, pops + 1)

find_child_deep(ns, name) == find_child_deep_loop(ns, <<1>>, name, 0)

\* SceneGraph::find_child
find_child(ns, name) == find_child_deep(ns, name).node

(***************************************************************************)
(* SceneGraph::find_child_mut_deep: the popped node's own name is never    *)
(* compared; its children are scanned front to back, the first child with  *)
(* the name is returned, the group children passed on the way are pushed.  *)
(***************************************************************************)
RECURSIVE find_child_mut_scan(_, _, _, _, _)
find_child_mut_scan(ns, children, i, name, stack) ==
    IF i > Len(children) THEN [hit |-> None, stack |-> stack]
    ELSE LET child == children[i]
         IN  IF ns[child].name = name THEN [hit |-> Some(child), stack |-> stack]
             ELSE IF ns[child].kind = "GroupNode"
             THEN find_child_mut_scan(ns, children, i + 1, name, Append(stack, child))
             ELSE find_child_mut_scan(ns, children, i + 1, name, stack)

RECURSIVE find_child_mut_deep_loop(_, _, _)
find_child_mut_deep_loop(ns, stack, name) ==
    IF stack = <<>> THEN None
    ELSE LET node == stack[Len(stack)]
             rest == SubSeq(stack, 1, Len(stack) - 1)
         IN  IF ns[node].kind = "GroupNode"
             THEN LET scan == find_child_mut_scan(ns, ns[node].children, 1, name, rest)
                  IN  IF IsSome(scan.hit) THEN scan.hit
                      ELSE find_child_mut_deep_loop(ns, scan.stack, name)
             ELSE find_child_mut_deep_loop(ns, rest, name)

find_child_mut_deep(ns, name) == find_child_mut_deep_loop(ns, <<1>>, name)

\* faulty variant: a name that resolves to nothing falls back to the root
find_child_mut_or_root(ns, name) ==
    IF IsSome(name) /\ IsSome(find_child_mut_deep(ns, Unwrap(name)))
    THEN find_child_mut_deep(ns, Unwrap(name))
    ELSE Some(1)

\* SceneGraph::find_child_mut: None is the root
find_child_mut(ns, name) ==
    IF IsSome(name) THEN find_child_mut_deep(ns, Unwrap(name)) ELSE Some(1)

(***************************************************************************)
(* SceneGraph::add_child.  unwrap() of None panics; a parent that is not a *)
(* GroupNode fails the if-let and the child is dropped.                    *)
(***************************************************************************)
\* faulty variant: the child is put in front of the parent's children
add_child_in_front(ns, parent, child) ==
    LET parent_node == find_child_mut(ns, parent)
    IN  IF ~IsSome(parent_node)
        THEN [panic |-> TRUE, nodes |-> ns, target |-> None, child |-> 0]
        ELSE IF ns[Unwrap(parent_node)].kind = "GroupNode"
        THEN [panic |-> FALSE,
              nodes |-> Append(
                  [ns EXCEPT ![Unwrap(parent_node)].children = <<Len(ns) + 1>> \o @],
                  child),
              target |-> parent_node, child |-> Len(ns) + 1]
        ELSE [panic |-> FALSE, nodes |-> ns, target |-> parent_node, child |-> 0]

\* SceneGraph::add_child
add_child(ns, parent, child) ==
    LET parent_node == find_child_mut(ns, parent)
    IN  IF ~IsSome(parent_node)
        THEN [panic |-> TRUE, nodes |-> ns, target |-> None, child |-> 0]
        ELSE IF ns[Unwrap(parent_node)].kind = "GroupNode"
        THEN [panic |-> FALSE,
              nodes |-> Append(
                  [ns EXCEPT ![Unwrap(parent_node)].children = Append(@, Len(ns) + 1)],
                  child),
              target |-> parent_node, child |-> Len(ns) + 1]
        ELSE [panic |-> FALSE, nodes |-> ns, target |-> parent_node, child |-> 0]

(***************************************************************************)
(* model::Model: meshes that index into materials.                         *)
(***************************************************************************)
\* model::Material: its name and its diffuse texture, if it has one
Material(name, diffuse_texture) == [name |-> name, diffuse_texture |-> diffuse_texture]

\* Material::create_bind_group: a bind group only over a diffuse texture
Material_create_bind_group(material) ==
    IF IsSome(material.diffuse_texture)
    THEN Some([label |-> material.name, texture |-> Unwrap(material.diffuse_texture)])
    ELSE None

\* model::Mesh; material is the index into Model.materials, from 0
Model_Mesh(name, vertices, indices, material) ==
    [name |-> name, vertices |-> vertices, indices |-> indices,
     num_elements |-> Len(indices), material |-> material]

Model(meshes, materials) == [meshes |-> meshes, materials |-> materials]

\* the loop of SceneGraph::add_model_node from mesh i on: the material is indexed (a panic
\* when the index is out of bounds), its bind group created, the render node
\* built with the matrix and added under the parent, which is looked up anew
RECURSIVE add_model_node_loop(_, _, _, _, _, _)
add_model_node_loop(ns, parent, name, model, matrix, i) ==
    IF i > Len(model.meshes) THEN [panic |-> FALSE, nodes |-> ns]
    ELSE LET mesh == model.meshes[i]
         IN  IF mesh.material >= Len(model.materials) THEN [panic |-> TRUE, nodes |-> ns]
             ELSE LET material == model.materials[mesh.material + 1]
                      bind_group == Material_create_bind_group(material)
                      render_node == RenderNode_new_with_matrix(
                                         name \o "-" \o mesh.name, mesh.vertices,
                                         mesh.indices, bind_group, matrix)
                      r == add_child(ns, parent, render_node)
                  IN  IF r.panic THEN [panic |-> TRUE, nodes |-> r.nodes]
                      ELSE add_model_node_loop(r.nodes, parent, name, model, matrix, i + 1)

(***************************************************************************)
(* SceneGraphRenderNodeIterator.  A stack entry is <<node, parent matrix>>.*)
(***************************************************************************)
\* SceneGraphRenderNodeIterator::new
RenderNodeIterator_new == <<<<1, IDENTITY>>>>

\* faulty variant: the group's matrix is multiplied from the left: child-to-root order
RenderNodeIterator_group_arm_swapped(ns, node, parent_matrix, rest) ==
    LET current_matrix == Mat4Mul(ns[node].matrix, parent_matrix)
    IN  rest \o [i \in 1..Len(ns[node].children) |->
                    <<ns[node].children[i], current_matrix>>]

\* faulty variant: the children are pushed back to front, so the first child is popped first
RenderNodeIterator_group_arm_reversed(ns, node, parent_matrix, rest) ==
    LET current_matrix == Mat4Mul(parent_matrix, ns[node].matrix)
        n == Len(ns[node].children)
    IN  rest \o [i \in 1..n |-> <<ns[node].children[n + 1 - i], current_matrix>>]

\* the GroupNode arm of next: every child is pushed with the composed matrix
RenderNodeIterator_group_arm(ns, node, parent_matrix, rest) ==
    LET current_matrix == Mat4Mul(parent_matrix, ns[node].matrix)
    IN  rest \o [i \in 1..Len(ns[node].children) |->
                    <<ns[node].children[i], current_matrix>>]

\* the RenderNode arm of next: the item returned
RenderNodeIterator_render_arm(ns, node, parent_matrix) ==
    <<node, Mat4Mul(parent_matrix, ns[node].matrix)>>

\* faulty variant: a leaf of another kind ends the call with None instead of being skipped
RECURSIVE RenderNodeIterator_next_stops_at_other(_, _)
RenderNodeIterator_next_stops_at_other(ns, stack) ==
    IF stack = <<>> THEN [item |-> None, stack |-> stack]
    ELSE LET node == stack[Len(stack)][1]
             parent_matrix == stack[Len(stack)][2]
             rest == SubSeq(stack, 1, Len(stack) - 1)
         IN  CASE ns[node].kind = "GroupNode" ->
                    RenderNodeIterator_next_stops_at_other(
                        ns,
                        rest \o [i \in 1..Len(ns[node].children) |->
                                    <<ns[node].children[i],
                                      Mat4Mul(parent_matrix, ns[node].matrix)>>])
               [] ns[node].kind = "RenderNode" ->
                    [item |-> Some(<<node, Mat4Mul(parent_matrix, ns[node].matrix)>>),
                     stack |-> rest]
               [] OTHER -> [item |-> None, stack |-> rest]

\* SceneGraphRenderNodeIterator::next: pops until a RenderNode is met
RECURSIVE RenderNodeIterator_next(_, _)
RenderNodeIterator_next(ns, stack) ==
    IF stack = <<>> THEN [item |-> None, stack |-> stack]
    ELSE LET node == stack[Len(stack)][1]
             parent_matrix == stack[Len(stack)][2]
             rest == SubSeq(stack, 1, Len(stack) - 1)
         IN  CASE ns[node].kind = "GroupNode" ->
                    RenderNodeIterator_next(
                        ns, RenderNodeIterator_group_arm(ns, node, parent_matrix, rest))
               [] ns[node].kind = "RenderNode" ->
                    [item |-> Some(RenderNodeIterator_render_arm(ns, node, parent_matrix)),
                     stack |-> rest]
               [] OTHER -> RenderNodeIterator_next(ns, rest)

(***************************************************************************)
(* SceneGraphLightNodeIterator                                             *)
(***************************************************************************)
\* SceneGraphLightNodeIterator::new
LightNodeIterator_new == <<<<1, IDENTITY>>>>

\* the GroupNode arm of next
LightNodeIterator_group_arm(ns, node, parent_matrix, rest) ==
    LET current_matrix == Mat4Mul(parent_matrix, ns[node].matrix)
    IN  rest \o [i \in 1..Len(ns[node].children) |->
                    <<ns[node].children[i], current_matrix>>]

\* the LightNode arm of next
LightNodeIterator_light_arm(ns, node, parent_matrix) ==
    <<node, Mat4Mul(parent_matrix, ns[node].matrix)>>

\* SceneGraphLightNodeIterator::next: pops until a LightNode is met
RECURSIVE LightNodeIterator_next(_, _)
LightNodeIterator_next(ns, stack) ==
    IF stack = <<>> THEN [item |-> None, stack |-> stack]
    ELSE LET node == stack[Len(stack)][1]
             parent_matrix == stack[Len(stack)][2]
             rest == SubSeq(stack, 1, Len(stack) - 1)
         IN  CASE ns[node].kind = "GroupNode" ->
                    LightNodeIterator_next(
                        ns, LightNodeIterator_group_arm(ns, node, parent_matrix, rest))
               [] ns[node].kind = "LightNode" ->
                    [item |-> Some(LightNodeIterator_light_arm(ns, node, parent_matrix)),
                     stack |-> rest]
               [] OTHER -> LightNodeIterator_next(ns, rest)

\* Iterator::collect on a light iterator
RECURSIVE LightNodeIterator_collect(_, _)
LightNodeIterator_collect(ns, stack) ==
    LET r == LightNodeIterator_next(ns, stack)
    IN  IF IsSome(r.item)
        THEN <<Unwrap(r.item)>> \o LightNodeIterator_collect(ns, r.stack)
        ELSE <<>>

\* Iterator::collect on a render iterator
RECURSIVE RenderNodeIterator_collect(_, _)
RenderNodeIterator_collect(ns, stack) ==
    LET r == RenderNodeIterator_next(ns, stack)
    IN  IF IsSome(r.item)
        THEN <<Unwrap(r.item)>> \o RenderNodeIterator_collect(ns, r.stack)
        ELSE <<>>

(***************************************************************************)
(* The light bind group.                                                   *)
(***************************************************************************)
\* SceneGraph::get_light_nodes
get_light_nodes(ns) == LightNodeIterator_collect(ns, LightNodeIterator_new)

\* SceneGraph::get_light_uniforms
get_light_uniforms(ns) ==
    LET lights == get_light_nodes(ns)
    IN  [i \in 1..Len(lights) |-> from_light(ns[lights[i][1]].light, lights[i][2])]

\* faulty variant: binding 0 is laid out for a single light however many there are
update_light_bind_group_layout_single(ns) ==
    Some(get_bind_group_layout(IF Len(get_light_nodes(ns)) = 0 THEN 0 ELSE 1))

\* SceneGraph::update_light_bind_group_layout: the assignment of None at count 0
\* is followed by the unconditional assignment of a new layout
update_light_bind_group_layout(ns) ==
    Some(get_bind_group_layout(Len(get_light_nodes(ns))))

\* SceneGraph::update_light_bind_group: the new value of light_bind_group given
\* the layout just rebuilt (which is always Some, so the if-let always succeeds)
update_light_bind_group(ns, old_bind_group) ==
    LET layout == update_light_bind_group_layout(ns)
    IN  IF IsSome(layout)
        THEN Some([light_buffer |-> get_light_uniforms(ns), layout |-> Unwrap(layout)])
        ELSE old_bind_group

(***************************************************************************)
(* The calls a frame makes, in the order the code makes them.  A call is   *)
(* recorded with the object it is made on, the bind group index or vertex  *)
(* buffer slot, the buffer written, the value passed and the node it is    *)
(* made for (0: none).                                                     *)
(***************************************************************************)
Cmd(on, call, slot, buffer, arg, node) ==
    [on |-> on, call |-> call, slot |-> slot, buffer |-> buffer, arg |-> arg,
     node |-> node]

\* the calls of a for loop: the calls of each iteration, one after the other
RECURSIVE ForEach(_)
ForEach(iterations) ==
    IF iterations = <<>> THEN <<>>
    ELSE Head(iterations) \o ForEach(Tail(iterations))

\* Light::to_camera_uniform
to_camera_uniform(light, model) ==
    [view_proj |-> calculate_matrix(light, model), position |-> light.pos \o <<1>>]

\* ModelUniform { view_proj: matrix.to_cols_array_2d() }
ModelUniform(matrix) == [view_proj |-> matrix]

\* faulty variant: the node is drawn first and its matrix written afterwards
draw_scenegraph_node_draw_first(ns, pass, material_bind_group_index, render_node) ==
    <<Cmd(pass, "set_vertex_buffer", 0, "", ns[render_node[1]].vertex_buffer,
          render_node[1]),
      Cmd(pass, "set_index_buffer", 0, "", ns[render_node[1]].index_buffer,
          render_node[1]),
      Cmd(pass, "set_bind_group", material_bind_group_index, "",
          ns[render_node[1]].material_bind_group, render_node[1]),
      Cmd(pass, "draw_indexed", 0, "", ns[render_node[1]].num_elements, render_node[1]),
      Cmd("queue", "write_buffer", 0, "model_matrix_buffer",
          ModelUniform(render_node[2]), render_node[1])>>

\* the body of the loop of draw_scenegraph for one collected (node, world matrix):
\* the material bind group is bound, or None when the node has none
draw_scenegraph_node(ns, pass, material_bind_group_index, render_node) ==
    <<Cmd(pass, "set_vertex_buffer", 0, "", ns[render_node[1]].vertex_buffer,
          render_node[1]),
      Cmd(pass, "set_index_buffer", 0, "", ns[render_node[1]].index_buffer,
          render_node[1]),
      Cmd("queue", "write_buffer", 0, "model_matrix_buffer",
          ModelUniform(render_node[2]), render_node[1]),
      Cmd(pass, "set_bind_group", material_bind_group_index, "",
          ns[render_node[1]].material_bind_group, render_node[1]),
      Cmd(pass, "draw_indexed", 0, "", ns[render_node[1]].num_elements, render_node[1])>>

\* DrawScenegraph::draw_scenegraph
draw_scenegraph(ns, pass, material_bind_group_index) ==
    LET render_nodes == RenderNodeIterator_collect(ns, RenderNodeIterator_new)
    IN  ForEach([i \in 1..Len(render_nodes) |->
            draw_scenegraph_node(ns, pass, material_bind_group_index, render_nodes[i])])

\* the body of the loop of draw_scenegraph_vertices
draw_scenegraph_vertices_node(ns, pass, render_node) ==
    <<Cmd("queue", "write_buffer", 0, "model_matrix_buffer",
          ModelUniform(render_node[2]), render_node[1]),
      Cmd(pass, "set_vertex_buffer", 0, "", ns[render_node[1]].vertex_buffer,
          render_node[1]),
      Cmd(pass, "set_index_buffer", 0, "", ns[render_node[1]].index_buffer,
          render_node[1]),
      Cmd(pass, "draw_indexed", 0, "", ns[render_node[1]].num_elements, render_node[1])>>

\* DrawScenegraph::draw_scenegraph_vertices
draw_scenegraph_vertices(ns, pass) ==
    LET render_nodes == RenderNodeIterator_collect(ns, RenderNodeIterator_new)
    IN  ForEach([i \in 1..Len(render_nodes) |->
            draw_scenegraph_vertices_node(ns, pass, render_nodes[i])])

\* faulty variant: the light's camera uniform is written after the sub-pass has
\* drawn the scene
shadow_sub_pass_write_last(ns, light_node) ==
    <<Cmd("encoder", "begin_render_pass", 0, "", ns[light_node[1]].light.target_view,
          light_node[1]),
      Cmd("shadow", "set_pipeline", 0, "", "shadow_pipeline", light_node[1]),
      Cmd("shadow", "set_bind_group", 1, "", Some("model_matrix_bind_group"),
          light_node[1]),
      Cmd("shadow", "set_bind_group", 0, "", Some("camera_bind_group"), light_node[1])>>
    \o draw_scenegraph_vertices(ns, "shadow")
    \o <<Cmd("queue", "write_buffer", 0, "camera_buffer",
             to_camera_uniform(ns[light_node[1]].light, light_node[2]), light_node[1]),
         Cmd("shadow", "end_render_pass", 0, "", "drop", light_node[1])>>

\* the body of the loop of render_shadow_pass for one (light node, world matrix):
\* the pass renders into the light's target view, the light's camera uniform is
\* written to camera_state.camera_buffer, the pass ends when rpass is dropped
shadow_sub_pass(ns, light_node) ==
    <<Cmd("encoder", "begin_render_pass", 0, "", ns[light_node[1]].light.target_view,
          light_node[1]),
      Cmd("shadow", "set_pipeline", 0, "", "shadow_pipeline", light_node[1]),
      Cmd("shadow", "set_bind_group", 1, "", Some("model_matrix_bind_group"),
          light_node[1]),
      Cmd("queue", "write_buffer", 0, "camera_buffer",
          to_camera_uniform(ns[light_node[1]].light, light_node[2]), light_node[1]),
      Cmd("shadow", "set_bind_group", 0, "", Some("camera_bind_group"), light_node[1])>>
    \o draw_scenegraph_vertices(ns, "shadow")
    \o <<Cmd("shadow", "end_render_pass", 0, "", "drop", light_node[1])>>

\* render_shadow_pass
render_shadow_pass(ns) ==
    LET light_nodes == LightNodeIterator_collect(ns, LightNodeIterator_new)
    IN  ForEach([i \in 1..Len(light_nodes) |-> shadow_sub_pass(ns, light_nodes[i])])

\* App::draw, the forward pass: the light bind group is bound as the Option it is
forward_pass(ns, bind_group) ==
    <<Cmd("encoder", "begin_render_pass", 0, "", "view", 0),
      Cmd("forward", "set_pipeline", 0, "", "render_pipeline", 0),
      Cmd("forward", "set_bind_group", 0, "", Some("camera_bind_group"), 0),
      Cmd("forward", "set_bind_group", 1, "", Some("model_matrix_bind_group"), 0),
      Cmd("forward", "set_bind_group", 3, "", bind_group, 0)>>
    \o draw_scenegraph(ns, "forward", 2)
    \o <<Cmd("forward", "end_render_pass", 0, "", "drop", 0)>>

\* faulty variant: the frame-end hook runs before the commands are submitted
frame_end_update_first ==
    <<Cmd("scene_graph", "on_frame_update", 0, "", "", 0),
      Cmd("queue", "submit", 0, "", "encoder.finish()", 0),
      Cmd("frame", "present", 0, "", "", 0),
      Cmd("readback", "map_async", 0, "readback", "MapMode::Read", 0),
      Cmd("device", "poll", 0, "", "Maintain::Wait", 0)>>

\* App::draw from queue.submit to its end
frame_end ==
    <<Cmd("queue", "submit", 0, "", "encoder.finish()", 0),
      Cmd("frame", "present", 0, "", "", 0),
      Cmd("readback", "map_async", 0, "readback", "MapMode::Read", 0),
      Cmd("device", "poll", 0, "", "Maintain::Wait", 0),
      Cmd("scene_graph", "on_frame_update", 0, "", "", 0)>>

\* App::draw once the surface texture is acquired
App_draw_calls(ns, bind_group) ==
    <<Cmd("surface", "get_current_texture", 0, "", "Ok", 0),
      Cmd("device", "create_command_encoder", 0, "", "", 0)>>
    \o render_shadow_pass(ns)
    \o <<Cmd("queue", "write_buffer", 0, "camera_buffer", "camera_uniform", 0)>>
    \o forward_pass(ns, bind_group)
    \o <<Cmd("encoder", "copy_texture_to_buffer", 0, "readback", "shadow_map.texture", 0)>>
    \o frame_end

\* the vertex stage of the shaders: the position of the bound vertex multiplied
\* by the model matrix uniform
vs_main(model_matrix, position) == transform_point3(model_matrix.view_proj, position)

\* queue.submit: the writes queued with queue.write_buffer all take effect, in the
\* order of the calls, before the submitted command buffer executes; the content
\* of a buffer as the recorded commands execute is the last value written to it
\* before the submit (None when nothing was written)
buffer_at_submit(calls, buffer) ==
    LET submit == CHOOSE s \in 1..Len(calls) : calls[s].call = "submit"
        writes == {i \in 1..(submit - 1) :
                      calls[i].call = "write_buffer" /\ calls[i].buffer = buffer}
    IN  IF writes = {} THEN None
        ELSE Some(calls[CHOOSE i \in writes : \A j \in writes : j <= i].arg)

\* faulty variant: the callback is called first and sees lights_dirty as it was
SceneGraph_on_frame_update_callback_first(dirty, callback) ==
    [lights_dirty |-> FALSE,
     calls |-> IF IsSome(callback)
               THEN <<Cmd("callback", "call", 0, "",
                          [callback |-> Unwrap(callback), lights_dirty |-> dirty], 0)>>
               ELSE <<>>]

\* SceneGraph::on_frame_update: lights_dirty is cleared, then the callback, if one
\* is set, is called with the graph (of which the flag it sees is kept)
SceneGraph_on_frame_update(dirty, callback) ==
    [lights_dirty |-> FALSE,
     calls |-> IF IsSome(callback)
               THEN <<Cmd("callback", "call", 0, "",
                          [callback |-> Unwrap(callback), lights_dirty |-> FALSE], 0)>>
               ELSE <<>>]

\* App::new: MaybeRenderer::Proxy(RenderProxy::new(..)), the event loop proxy unspent
RenderProxy_new ==
    [kind |-> "Proxy", event_loop_proxy |-> TRUE, render_pipeline |-> None,
     surface_config |-> None, depth_texture |-> None]

\* window.inner_size() when create_graphics configures the surface
WindowSize == <<800, 600>>

\* the Renderer that create_graphics returns; of its fields are kept the forward
\* pipeline, built over the light bind group layout of the time, the size in
\* surface_config and the size of the depth texture made from it
Renderer(render_pipeline) ==
    [kind |-> "Renderer", event_loop_proxy |-> FALSE,
     render_pipeline |-> Some(render_pipeline),
     surface_config |-> Some(WindowSize), depth_texture |-> Some(WindowSize)]

\* create_graphics from the scene graph on: the forward pipeline is built over the
\* unwrapped light bind group layout
create_graphics(layout) ==
    IF IsSome(layout)
    THEN [panic |-> FALSE,
          renderer |-> Some(Renderer([light_bind_group_layout |-> Unwrap(layout)]))]
    ELSE [panic |-> TRUE, renderer |-> None]

(***************************************************************************)
(* The state machine.                                                      *)
(***************************************************************************)
\* what a call did: the operation, its parent and name arguments, the node the
\* lookup resolved to (or the item returned), the id given to a child that was
\* attached (0: none), and how the call ended
Call(op, parent, name, target, child, outcome) ==
    [op |-> op, parent |-> parent, name |-> name, target |-> target,
     child |-> child, outcome |-> outcome]

NoIter == [kind |-> "none", stack |-> <<>>, nones |-> 0]

\* SceneGraph::new
Init ==
    /\ nodes = <<GroupNode_new("root")>>
    /\ light_bind_group = None
    /\ light_bind_group_layout = None
    /\ lights_dirty = FALSE
    /\ on_frame_update_callback = None
    /\ panicked = FALSE
    /\ ret = Call("new", None, "", None, 0, "returned")
    /\ iter = NoIter
    /\ yielded = <<>>
    /\ renderer = RenderProxy_new
    /\ events = <<>>

\* a call that changes the graph needs the exclusive borrow: no iterator is alive
CanMutate == ~panicked /\ iter.kind = "none"

Outcome(r) == IF r.panic THEN "panic" ELSE "returned"

\* add_child(parent, Node::GroupNode(GroupNode::new(name)))
add_group_node(parent, name) ==
    /\ CanMutate
    /\ LET r == add_child(nodes, parent, GroupNode_new(name))
       IN  /\ nodes' = r.nodes
           /\ panicked' = r.panic
           /\ ret' = Call("add_group_node", parent, name, r.target, r.child, Outcome(r))
    /\ UNCHANGED <<light_bind_group, light_bind_group_layout, lights_dirty, iterVars>>
    /\ UNCHANGED <<appVars, callbackVars>>

\* SceneGraph::add_render_node
add_render_node(parent, name, mesh, matrix) ==
    /\ CanMutate
    /\ LET render_node == RenderNode_new_with_matrix(
                              name, mesh.vertices, mesh.indices, None, matrix)
           r == add_child(nodes, parent, render_node)
       IN  /\ nodes' = r.nodes
           /\ panicked' = r.panic
           /\ ret' = Call("add_render_node", parent, name, r.target, r.child, Outcome(r))
    /\ UNCHANGED <<light_bind_group, light_bind_group_layout, lights_dirty, iterVars>>
    /\ UNCHANGED <<appVars, callbackVars>>

\* what add_model_node did: its arguments, the number of nodes before the call,
\* and how it ended
ModelRet(parent, name, model, matrix, before, outcome) ==
    [op |-> "add_model_node", parent |-> parent, name |-> name, target |-> None,
     child |-> 0, outcome |-> outcome, model |-> model, matrix |-> matrix,
     before |-> before]

\* SceneGraph::add_model_node
add_model_node(parent, name, model, matrix) ==
    /\ CanMutate
    /\ LET r == add_model_node_loop(nodes, parent, name, model, matrix, 1)
       IN  /\ nodes' = r.nodes
           /\ panicked' = r.panic
           /\ ret' = ModelRet(parent, name, model, matrix, Len(nodes), Outcome(r))
    /\ UNCHANGED <<light_bind_group, light_bind_group_layout, lights_dirty,
                   iterVars, appVars, callbackVars>>

\* faulty variant: a light beyond the layers of the shadow map is refused
add_light_node_checked(parent, name, light) ==
    /\ CanMutate
    /\ LET full == Len(get_light_nodes(nodes)) >= MAX_LIGHTS
           r == add_child(nodes, parent, LightNode_new(name, light))
       IN  /\ nodes' = IF full THEN nodes ELSE r.nodes
           /\ panicked' = r.panic
           /\ ret' = Call("add_light_node", parent, name, r.target,
                          IF full THEN 0 ELSE r.child,
                          IF full /\ ~r.panic THEN "error" ELSE Outcome(r))
           /\ IF r.panic \/ full
              THEN UNCHANGED <<light_bind_group, light_bind_group_layout, lights_dirty>>
              ELSE /\ lights_dirty' = TRUE
                   /\ light_bind_group_layout' = update_light_bind_group_layout(r.nodes)
                   /\ light_bind_group' = update_light_bind_group(r.nodes, light_bind_group)
    /\ UNCHANGED iterVars
    /\ UNCHANGED <<appVars, callbackVars>>

\* SceneGraph::add_light_node: add_child, then update_light_bind_group, which a
\* panic in add_child never reaches
add_light_node(parent, name, light) ==
    /\ CanMutate
    /\ LET r == add_child(nodes, parent, LightNode_new(name, light))
       IN  /\ nodes' = r.nodes
           /\ panicked' = r.panic
           /\ ret' = Call("add_light_node", parent, name, r.target, r.child, Outcome(r))
           /\ IF r.panic
              THEN UNCHANGED <<light_bind_group, light_bind_group_layout, lights_dirty>>
              ELSE /\ lights_dirty' = TRUE
                   /\ light_bind_group_layout' = update_light_bind_group_layout(r.nodes)
                   /\ light_bind_group' = update_light_bind_group(r.nodes, light_bind_group)
    /\ UNCHANGED iterVars
    /\ UNCHANGED <<appVars, callbackVars>>

\* SceneGraph::find_child
FindChild(name) ==
    /\ ~panicked
    /\ ret' = Call("find_child", None, name, find_child(nodes, name), 0, "returned")
    /\ UNCHANGED <<graphVars, panicked, iterVars>>
    /\ UNCHANGED <<appVars, callbackVars>>

\* SceneGraph::find_child_mut
FindChildMut(name) ==
    /\ CanMutate
    /\ ret' = Call("find_child_mut", name, "", find_child_mut(nodes, name), 0, "returned")
    /\ UNCHANGED <<graphVars, panicked, iterVars>>
    /\ UNCHANGED <<appVars, callbackVars>>

\* GroupNode::set_matrix on the group with id n (the root is SceneGraph.root)
GroupNode_set_matrix(n, matrix) ==
    /\ CanMutate
    /\ nodes[n].kind = "GroupNode"
    /\ nodes' = [nodes EXCEPT ![n] = NodeData_set_matrix(@, matrix)]
    /\ ret' = Call("GroupNode::set_matrix", None, "", None, 0, "returned")
    /\ UNCHANGED <<light_bind_group, light_bind_group_layout, lights_dirty,
                   panicked, iterVars>>
    /\ UNCHANGED <<appVars, callbackVars>>

\* LightNode.node.set_matrix on the light with id n
LightNode_set_matrix(n, matrix) ==
    /\ CanMutate
    /\ nodes[n].kind = "LightNode"
    /\ nodes' = [nodes EXCEPT ![n] = NodeData_set_matrix(@, matrix)]
    /\ ret' = Call("NodeData::set_matrix", None, "", None, 0, "returned")
    /\ UNCHANGED <<light_bind_group, light_bind_group_layout, lights_dirty,
                   panicked, iterVars>>
    /\ UNCHANGED <<appVars, callbackVars>>

\* RenderNode::set_matrix on the render node with id n
SetMatrix(n, matrix) ==
    /\ CanMutate
    /\ nodes[n].kind = "RenderNode"
    /\ nodes' = [nodes EXCEPT ![n] = RenderNode_set_matrix(@, matrix)]
    /\ ret' = Call("RenderNode::set_matrix", None, "", None, 0, "returned")
    /\ UNCHANGED <<light_bind_group, light_bind_group_layout, lights_dirty,
                   panicked, iterVars>>
    /\ UNCHANGED <<appVars, callbackVars>>

\* SceneGraphRenderNodeIterator::new(&scene_graph)
RenderIterNew ==
    /\ CanMutate
    /\ iter' = [kind |-> "render", stack |-> RenderNodeIterator_new, nones |-> 0]
    /\ yielded' = <<>>
    /\ ret' = Call("iter_new", None, "", None, 0, "returned")
    /\ UNCHANGED <<graphVars, panicked>>
    /\ UNCHANGED <<appVars, callbackVars>>

\* SceneGraphLightNodeIterator::new(&scene_graph)
LightIterNew ==
    /\ CanMutate
    /\ iter' = [kind |-> "light", stack |-> LightNodeIterator_new, nones |-> 0]
    /\ yielded' = <<>>
    /\ ret' = Call("iter_new", None, "", None, 0, "returned")
    /\ UNCHANGED <<graphVars, panicked>>
    /\ UNCHANGED <<appVars, callbackVars>>

\* one call of next() on the live render iterator
RenderIterNext ==
    /\ iter.kind = "render"
    /\ iter.nones < MaxNones
    /\ LET r == RenderNodeIterator_next(nodes, iter.stack)
       IN  /\ iter' = [iter EXCEPT !.stack = r.stack,
                                   !.nones = IF IsSome(r.item) THEN @ ELSE @ + 1]
           /\ yielded' = IF IsSome(r.item) THEN Append(yielded, Unwrap(r.item))
                         ELSE yielded
           /\ ret' = Call("next", None, "", r.item, 0, "returned")
    /\ UNCHANGED <<graphVars, panicked>>
    /\ UNCHANGED <<appVars, callbackVars>>

\* one call of next() on the live light iterator
LightIterNext ==
    /\ iter.kind = "light"
    /\ iter.nones < MaxNones
    /\ LET r == LightNodeIterator_next(nodes, iter.stack)
       IN  /\ iter' = [iter EXCEPT !.stack = r.stack,
                                   !.nones = IF IsSome(r.item) THEN @ ELSE @ + 1]
           /\ yielded' = IF IsSome(r.item) THEN Append(yielded, Unwrap(r.item))
                         ELSE yielded
           /\ ret' = Call("next", None, "", r.item, 0, "returned")
    /\ UNCHANGED <<graphVars, panicked>>
    /\ UNCHANGED <<appVars, callbackVars>>

\* the iterator goes out of scope
IterDrop ==
    /\ iter.kind # "none"
    /\ iter' = NoIter
    /\ yielded' = <<>>
    /\ ret' = Call("iter_drop", None, "", None, 0, "returned")
    /\ UNCHANGED <<graphVars, panicked>>
    /\ UNCHANGED <<appVars, callbackVars>>

\* a write to the pub field Light.pos of the light node with id n
Light_set_pos(n, pos) ==
    /\ CanMutate
    /\ nodes[n].kind = "LightNode"
    /\ nodes' = [nodes EXCEPT ![n].light.pos = pos]
    /\ ret' = Call("Light.pos", None, "", None, 0, "returned")
    /\ UNCHANGED <<light_bind_group, light_bind_group_layout, lights_dirty,
                   panicked, iterVars, appVars, callbackVars>>

\* SceneGraph::update_light_bind_group_layout, called on its own
UpdateLightBindGroupLayout ==
    /\ CanMutate
    /\ light_bind_group_layout' = update_light_bind_group_layout(nodes)
    /\ ret' = Call("update_light_bind_group_layout", None, "", None, 0, "returned")
    /\ UNCHANGED <<nodes, light_bind_group, lights_dirty, panicked, iterVars, appVars,
                   callbackVars>>

\* SceneGraph::update_light_bind_group, called on its own
UpdateLightBindGroup ==
    /\ CanMutate
    /\ lights_dirty' = TRUE
    /\ light_bind_group_layout' = update_light_bind_group_layout(nodes)
    /\ light_bind_group' = update_light_bind_group(nodes, light_bind_group)
    /\ ret' = Call("update_light_bind_group", None, "", None, 0, "returned")
    /\ UNCHANGED <<nodes, panicked, iterVars, appVars, callbackVars>>

\* faulty variant: build_and_send leaves the event loop proxy in place
resumed_keeps_proxy ==
    /\ CanMutate
    /\ IF renderer.kind = "Proxy" /\ renderer.event_loop_proxy
       THEN LET gfx == create_graphics(light_bind_group_layout)
            IN  /\ renderer' = renderer
                /\ panicked' = gfx.panic
                /\ events' = IF gfx.panic THEN events
                             ELSE Append(events, Unwrap(gfx.renderer))
                /\ ret' = Call("resumed", None, "", None, 0, Outcome(gfx))
       ELSE /\ ret' = Call("resumed", None, "", None, 0, "returned")
            /\ UNCHANGED <<renderer, events, panicked>>
    /\ UNCHANGED <<graphVars, iterVars, callbackVars>>

\* ApplicationHandler::resumed: on a proxy, RenderProxy::build_and_send takes the
\* event loop proxy, returns if it was spent, builds the Renderer and sends it
resumed ==
    /\ CanMutate
    /\ IF renderer.kind = "Proxy" /\ renderer.event_loop_proxy
       THEN LET gfx == create_graphics(light_bind_group_layout)
            IN  /\ renderer' = [renderer EXCEPT !.event_loop_proxy = FALSE]
                /\ panicked' = gfx.panic
                /\ events' = IF gfx.panic THEN events
                             ELSE Append(events, Unwrap(gfx.renderer))
                /\ ret' = Call("resumed", None, "", None, 0, Outcome(gfx))
       ELSE /\ ret' = Call("resumed", None, "", None, 0, "returned")
            /\ UNCHANGED <<renderer, events, panicked>>
    /\ UNCHANGED <<graphVars, iterVars, callbackVars>>

\* ApplicationHandler::user_event: the Renderer sent replaces the proxy
user_event ==
    /\ CanMutate
    /\ events # <<>>
    /\ renderer' = Head(events)
    /\ events' = Tail(events)
    /\ ret' = Call("user_event", None, "", None, 0, "returned")
    /\ UNCHANGED <<graphVars, panicked, iterVars, callbackVars>>

\* App::resized on WindowEvent::Resized: returns at once on a proxy; on a Renderer
\* the surface is configured for the size and the depth texture is made anew
resized(size) ==
    /\ CanMutate
    /\ renderer' = IF renderer.kind # "Renderer" THEN renderer
                   ELSE [renderer EXCEPT !.surface_config = Some(size),
                                         !.depth_texture = Some(size)]
    /\ ret' = Call("resized", None, "", None, 0, "returned")
    /\ UNCHANGED <<graphVars, panicked, iterVars, events, callbackVars>>

\* what App::draw did: how it ended and the calls it made
DrawRet(outcome, calls) ==
    [op |-> "draw", parent |-> None, name |-> "", target |-> None, child |-> 0,
     outcome |-> outcome, calls |-> calls]

\* SceneGraph::set_callback
set_callback(callback) ==
    /\ CanMutate
    /\ on_frame_update_callback' = Some(callback)
    /\ ret' = Call("set_callback", None, callback, None, 0, "returned")
    /\ UNCHANGED <<graphVars, panicked, iterVars, appVars>>

\* what SceneGraph::on_frame_update did, called on its own: the calls it made
FrameUpdateRet(calls) ==
    [op |-> "on_frame_update", parent |-> None, name |-> "", target |-> None,
     child |-> 0, outcome |-> "returned", calls |-> calls]

\* SceneGraph::on_frame_update, called on its own
on_frame_update ==
    /\ CanMutate
    /\ LET r == SceneGraph_on_frame_update(lights_dirty, on_frame_update_callback)
       IN  /\ lights_dirty' = r.lights_dirty
           /\ ret' = FrameUpdateRet(r.calls)
    /\ UNCHANGED <<nodes, light_bind_group, light_bind_group_layout, panicked,
                   iterVars, appVars, callbackVars>>

\* faulty variant: a frame without a surface texture is skipped, and the frame-end
\* hook still runs
App_draw_skips_frame(acquired) ==
    /\ CanMutate
    /\ IF renderer.kind # "Renderer"
       THEN /\ ret' = DrawRet("returned", <<>>)
            /\ UNCHANGED <<lights_dirty, panicked>>
       ELSE LET r == SceneGraph_on_frame_update(lights_dirty, on_frame_update_callback)
                frame == IF acquired
                         THEN App_draw_calls(nodes, light_bind_group)
                         ELSE <<Cmd("surface", "get_current_texture", 0, "", "Err", 0),
                                Cmd("scene_graph", "on_frame_update", 0, "", "", 0)>>
            IN  /\ ret' = DrawRet("returned", frame \o r.calls)
                /\ lights_dirty' = r.lights_dirty
                /\ UNCHANGED panicked
    /\ UNCHANGED <<nodes, light_bind_group, light_bind_group_layout, iterVars, appVars,
                   callbackVars>>

\* App::draw on WindowEvent::RedrawRequested: returns at once on a proxy, panics
\* when the surface gives no texture, else records the frame and ends with
\* SceneGraph::on_frame_update, which clears lights_dirty and calls the callback
App_draw(acquired) ==
    /\ CanMutate
    /\ IF renderer.kind # "Renderer"
       THEN /\ ret' = DrawRet("returned", <<>>)
            /\ UNCHANGED <<lights_dirty, panicked>>
       ELSE IF ~acquired
       THEN /\ ret' = DrawRet("panic",
                         <<Cmd("surface", "get_current_texture", 0, "", "Err", 0)>>)
            /\ panicked' = TRUE
            /\ UNCHANGED lights_dirty
       ELSE LET r == SceneGraph_on_frame_update(lights_dirty, on_frame_update_callback)
            IN  /\ ret' = DrawRet("returned",
                              App_draw_calls(nodes, light_bind_group) \o r.calls)
                /\ lights_dirty' = r.lights_dirty
                /\ UNCHANGED panicked
    /\ UNCHANGED <<nodes, light_bind_group, light_bind_group_layout, iterVars, appVars,
                   callbackVars>>

(***************************************************************************)
(* Spec: building the tree by name and looking names up.  Names may be     *)
(* shared by several nodes and may name no node at all.                    *)
(***************************************************************************)
NodeNames == {"a", "b"}
LookupNames == {"root", "a", "b"}
ParentArgs == {None} \cup {Some(n) : n \in LookupNames}
SunLight == Light(<<0, 25, 30>>, "WHITE", 0)
GroundMesh == Mesh(CubeEdge, <<0, 1, 0>>)

\* the arena has room for one more node
Room(max) == Len(nodes) <= max

TreeAddGroupNode == \E parent \in ParentArgs, name \in NodeNames :
    Room(MaxNodes) /\ add_group_node(parent, name)
TreeAddRenderNode == \E parent \in ParentArgs, name \in NodeNames :
    Room(MaxNodes) /\ add_render_node(parent, name, GroundMesh, IDENTITY)
TreeAddLightNode == \E parent \in ParentArgs, name \in NodeNames :
    Room(MaxNodes) /\ add_light_node(parent, name, SunLight)
TreeFindChild == \E name \in LookupNames : FindChild(name)
TreeFindChildMut == \E name \in ParentArgs : FindChildMut(name)

Next ==
    \/ TreeAddGroupNode
    \/ TreeAddRenderNode
    \/ TreeAddLightNode
    \/ TreeFindChild
    \/ TreeFindChildMut

Spec == Init /\ [][Next]_vars

(***************************************************************************)
(* SpecIter: nodes with unique names (the convention of the callers) and   *)
(* the two iterators stepped one next() at a time.                         *)
(***************************************************************************)
FreshNames == <<"root", "n2", "n3", "n4", "n5", "n6">>
FreshName == FreshNames[Len(nodes) + 1]
\* the names the tree holds below the root
KnownParents == {None} \cup {Some(nodes[i].name) : i \in 2..Len(nodes)}
NodeIds == 1..Len(nodes)

IterAddGroupNode == \E parent \in KnownParents :
    Room(MaxNodes) /\ add_group_node(parent, FreshName)
IterAddRenderNode == \E parent \in KnownParents :
    Room(MaxNodes) /\ add_render_node(parent, FreshName, GroundMesh, IDENTITY)
IterAddLightNode == \E parent \in KnownParents :
    Room(MaxNodes) /\ add_light_node(parent, FreshName, SunLight)

NextIter ==
    \/ IterAddGroupNode
    \/ IterAddRenderNode
    \/ IterAddLightNode
    \/ RenderIterNew
    \/ RenderIterNext
    \/ LightIterNew
    \/ LightIterNext
    \/ IterDrop

SpecIter == Init /\ [][NextIter]_vars

(***************************************************************************)
(* SpecXform: as SpecIter, with every node's matrix set and changed and    *)
(* render nodes built from either mesh.                                    *)
(***************************************************************************)
XfAddGroupNode == \E parent \in KnownParents :
    Room(MaxXfNodes) /\ add_group_node(parent, FreshName)
XfAddRenderNode == \E parent \in KnownParents, mesh \in Meshes, matrix \in Matrices :
    Room(MaxXfNodes) /\ add_render_node(parent, FreshName, mesh, matrix)
XfAddLightNode == \E parent \in KnownParents :
    Room(MaxXfNodes) /\ add_light_node(parent, FreshName, SunLight)
XfGroupSetMatrix == \E n \in NodeIds, matrix \in Matrices : GroupNode_set_matrix(n, matrix)
XfLightSetMatrix == \E n \in NodeIds, matrix \in Matrices : LightNode_set_matrix(n, matrix)
XfSetMatrix == \E n \in NodeIds, matrix \in Matrices : SetMatrix(n, matrix)

NextXform ==
    \/ XfAddGroupNode
    \/ XfAddRenderNode
    \/ XfAddLightNode
    \/ XfGroupSetMatrix
    \/ XfLightSetMatrix
    \/ XfSetMatrix
    \/ RenderIterNew
    \/ RenderIterNext
    \/ LightIterNew
    \/ LightIterNext
    \/ IterDrop

SpecXform == Init /\ [][NextXform]_vars

(***************************************************************************)
(* SpecFrame: the application.  The scene is built and changed through the *)
(* public calls and fields, the light bind group is rebuilt when a caller  *)
(* asks for it, the Renderer is built on resume and delivered as a user    *)
(* event, and every redraw request draws a frame.                          *)
(***************************************************************************)
\* the matrices and light positions callers pass in
FrameMatrices == {IDENTITY, TRANSLATE_X}
\* light_pos of create_scenegraph, and where rotate_sun puts the light at time 0
LightPositions == {<<0, 25, 30>>, <<30, 25, -15>>}

\* the light a caller builds next: create_scenegraph gives its first light the
\* shadow map layer 0, the next lights get the next layers
NextLight == Light(<<0, 25, 30>>, "WHITE", Len(get_light_nodes(nodes)))

FrAddGroupNode == \E parent \in KnownParents :
    Room(MaxFrameNodes) /\ add_group_node(parent, FreshName)
FrAddRenderNode == \E parent \in KnownParents, matrix \in FrameMatrices :
    Room(MaxFrameNodes) /\ add_render_node(parent, FreshName, GroundMesh, matrix)
FrAddLightNode == \E parent \in KnownParents :
    Room(MaxFrameNodes) /\ add_light_node(parent, FreshName, NextLight)
FrGroupSetMatrix == \E n \in NodeIds, matrix \in FrameMatrices :
    GroupNode_set_matrix(n, matrix)
FrLightSetMatrix == \E n \in NodeIds, matrix \in FrameMatrices :
    LightNode_set_matrix(n, matrix)
FrLightSetPos == \E n \in NodeIds, pos \in LightPositions : Light_set_pos(n, pos)
RedrawRequested == \E acquired \in BOOLEAN : App_draw(acquired)

NextFrame ==
    \/ FrAddGroupNode
    \/ FrAddRenderNode
    \/ FrAddLightNode
    \/ FrGroupSetMatrix
    \/ FrLightSetMatrix
    \/ FrLightSetPos
    \/ UpdateLightBindGroupLayout
    \/ UpdateLightBindGroup
    \/ resumed
    \/ user_event
    \/ RedrawRequested

SpecFrame == Init /\ [][NextFrame]_vars

(***************************************************************************)
(* SpecLights: lights are added among groups and render nodes, and the     *)
(* light bind group and its layout are rebuilt by add_light_node and by    *)
(* callers.                                                                *)
(***************************************************************************)
LtAddGroupNode == \E parent \in KnownParents :
    Room(MaxNodes) /\ add_group_node(parent, FreshName)
LtAddRenderNode == \E parent \in KnownParents :
    Room(MaxNodes) /\ add_render_node(parent, FreshName, GroundMesh, IDENTITY)
LtAddLightNode == \E parent \in KnownParents :
    Room(MaxNodes) /\ add_light_node(parent, FreshName, NextLight)

NextLights ==
    \/ LtAddGroupNode
    \/ LtAddRenderNode
    \/ LtAddLightNode
    \/ UpdateLightBindGroupLayout
    \/ UpdateLightBindGroup

SpecLights == Init /\ [][NextLights]_vars

(***************************************************************************)
(* SpecLightArray: lights are added below groups; groups and lights are    *)
(* moved and the light bind group is rebuilt by add_light_node and by      *)
(* callers.                                                                *)
(***************************************************************************)
LaAddGroupNode == \E parent \in KnownParents :
    Room(MaxArrayNodes) /\ add_group_node(parent, FreshName)
LaAddLightNode == \E parent \in KnownParents :
    Room(MaxArrayNodes) /\ add_light_node(parent, FreshName, NextLight)
LaGroupSetMatrix == \E n \in NodeIds, matrix \in FrameMatrices :
    GroupNode_set_matrix(n, matrix)
LaLightSetMatrix == \E n \in NodeIds, matrix \in FrameMatrices :
    LightNode_set_matrix(n, matrix)

NextLightArray ==
    \/ LaAddGroupNode
    \/ LaAddLightNode
    \/ LaGroupSetMatrix
    \/ LaLightSetMatrix
    \/ UpdateLightBindGroup

SpecLightArray == Init /\ [][NextLightArray]_vars

(***************************************************************************)
(* SpecDirty: lights are added, the light bind group is rebuilt, callbacks *)
(* are registered, and the frame-end hook runs, on its own and at the end  *)
(* of a drawn frame.                                                       *)
(***************************************************************************)
\* the callbacks callers register
Callbacks == {"cb1", "cb2"}

DtAddGroupNode == \E parent \in KnownParents :
    Room(MaxDirtyNodes) /\ add_group_node(parent, FreshName)
DtAddLightNode == \E parent \in KnownParents :
    Room(MaxDirtyNodes) /\ add_light_node(parent, FreshName, NextLight)
DtSetCallback == \E callback \in Callbacks : set_callback(callback)

NextDirty ==
    \/ DtAddGroupNode
    \/ DtAddLightNode
    \/ UpdateLightBindGroupLayout
    \/ UpdateLightBindGroup
    \/ DtSetCallback
    \/ on_frame_update
    \/ resumed
    \/ user_event
    \/ RedrawRequested

SpecDirty == Init /\ [][NextDirty]_vars

(***************************************************************************)
(* SpecManyLights: lights are added, below the root and below groups, up   *)
(* to and beyond the layers of the shadow map; every light is built for    *)
(* one of the layers the shadow map has.                                   *)
(***************************************************************************)
ShadowMapLayers == 0..(MAX_LIGHTS - 1)

MlAddGroupNode == \E parent \in KnownParents :
    Room(MaxLightNodes) /\ add_group_node(parent, FreshName)
MlAddLightNode == \E parent \in KnownParents, light_number \in ShadowMapLayers :
    Room(MaxLightNodes)
    /\ add_light_node(parent, FreshName, Light(<<0, 25, 30>>, "WHITE", light_number))

NextManyLights ==
    \/ MlAddGroupNode
    \/ MlAddLightNode

SpecManyLights == Init /\ [][NextManyLights]_vars

(***************************************************************************)
(* SpecApp: the application from its start: the scene gets its nodes, the  *)
(* event loop resumes the application, delivers the Renderer built, and    *)
(* sends redraw requests and new window sizes, in any order and any number *)
(* of times.                                                               *)
(***************************************************************************)
\* the sizes the window is given
WindowSizes == {WindowSize, <<1024, 768>>}

ApAddGroupNode == \E parent \in KnownParents :
    Room(MaxAppNodes) /\ add_group_node(parent, FreshName)
ApAddLightNode == \E parent \in KnownParents :
    Room(MaxAppNodes) /\ add_light_node(parent, FreshName, NextLight)
Resized == \E size \in WindowSizes : resized(size)

NextApp ==
    \/ ApAddGroupNode
    \/ ApAddLightNode
    \/ resumed
    \/ user_event
    \/ RedrawRequested
    \/ Resized

SpecApp == Init /\ [][NextApp]_vars

(***************************************************************************)
(* SpecDraw: a scene of groups, render nodes and lights is built, the      *)
(* Renderer is built and delivered, and frames are drawn.                  *)
(***************************************************************************)
DrAddGroupNode == \E parent \in KnownParents :
    Room(MaxDrawNodes) /\ add_group_node(parent, FreshName)
DrAddRenderNode == \E parent \in KnownParents, matrix \in FrameMatrices :
    Room(MaxDrawNodes) /\ add_render_node(parent, FreshName, GroundMesh, matrix)
DrAddLightNode == \E parent \in KnownParents :
    Room(MaxDrawNodes) /\ add_light_node(parent, FreshName, NextLight)
DrGroupSetMatrix == \E n \in NodeIds, matrix \in FrameMatrices :
    GroupNode_set_matrix(n, matrix)

NextDraw ==
    \/ DrAddGroupNode
    \/ DrAddRenderNode
    \/ DrAddLightNode
    \/ DrGroupSetMatrix
    \/ resumed
    \/ user_event
    \/ RedrawRequested

SpecDraw == Init /\ [][NextDraw]_vars

(***************************************************************************)
(* SpecModel: models are expanded into render nodes under parents given by *)
(* name, among groups and render nodes whose names may be shared.          *)
(***************************************************************************)
\* a material with the default texture (Material::new) and one without a texture
\* (Material::default)
Textured == Material("wall", Some("default_texture"))
Untextured == Material("glass", None)

\* a model of two meshes with a material each, a model without meshes, and what
\* load_model gives for an OBJ without materials: material_id.unwrap_or(0) and
\* an empty materials Vec
House == Model(<<Model_Mesh("m1", CubeEdge, <<0, 1, 0>>, 1),
                 Model_Mesh("m2", OneVertex, <<0>>, 0)>>,
               <<Textured, Untextured>>)
NoMeshes == Model(<<>>, <<Textured>>)
NoMaterials == Model(<<Model_Mesh("m1", OneVertex, <<0>>, 0)>>, <<>>)
Models == {House, NoMeshes, NoMaterials}

ModelParents == ParentArgs \cup {Some("a-m1")}

MdAddGroupNode == \E parent \in ParentArgs, name \in NodeNames :
    Room(MaxNodes) /\ add_group_node(parent, name)
MdAddRenderNode == \E parent \in ParentArgs, name \in NodeNames :
    Room(MaxNodes) /\ add_render_node(parent, name, GroundMesh, IDENTITY)
MdAddModelNode ==
    \E parent \in ModelParents, name \in NodeNames, model \in Models,
       matrix \in FrameMatrices :
        Room(MaxNodes + 1 - Len(model.meshes)) /\ add_model_node(parent, name, model, matrix)

NextModel ==
    \/ MdAddGroupNode
    \/ MdAddRenderNode
    \/ MdAddModelNode

SpecModel == Init /\ [][NextModel]_vars

(***************************************************************************)
(* SpecGrow: every call that adds to the graph or changes it: groups,      *)
(* render nodes, models and lights are added under parents given by name   *)
(* (names may be shared and may name no node), matrices are set, the light *)
(* bind group is rebuilt and the frame-end hook runs.                      *)
(***************************************************************************)
\* every node is added with the one name, so that a name is soon shared
GrowNames == {"a"}

GrAddGroupNode == \E parent \in ParentArgs, name \in GrowNames :
    Room(MaxGrowNodes) /\ add_group_node(parent, name)
GrAddRenderNode == \E parent \in ParentArgs, name \in GrowNames :
    Room(MaxGrowNodes) /\ add_render_node(parent, name, GroundMesh, TRANSLATE_X)
GrAddModelNode == \E parent \in ParentArgs, name \in GrowNames :
    Room(MaxGrowNodes + 1 - Len(House.meshes))
    /\ add_model_node(parent, name, House, IDENTITY)
GrAddLightNode == \E parent \in ParentArgs, name \in GrowNames :
    Room(MaxGrowNodes) /\ add_light_node(parent, name, NextLight)
GrGroupSetMatrix == \E n \in NodeIds : GroupNode_set_matrix(n, TRANSLATE_X)
GrLightSetMatrix == \E n \in NodeIds : LightNode_set_matrix(n, TRANSLATE_X)
GrSetMatrix == \E n \in NodeIds : SetMatrix(n, SCALE_2)

NextGrow ==
    \/ GrAddGroupNode
    \/ GrAddRenderNode
    \/ GrAddModelNode
    \/ GrAddLightNode
    \/ GrGroupSetMatrix
    \/ GrLightSetMatrix
    \/ GrSetMatrix
    \/ UpdateLightBindGroup
    \/ on_frame_update

SpecGrow == Init /\ [][NextGrow]_vars

(***************************************************************************)
(* The tree as the claims speak of it: parents, siblings, subtrees and the *)
(* order of a depth-first walk that takes the last child first.            *)
(***************************************************************************)
Range(seq) == {seq[i] : i \in 1..Len(seq)}
IndexOf(seq, x) == CHOOSE i \in 1..Len(seq) : seq[i] = x
Last(seq) == seq[Len(seq)]

Groups == {n \in NodeIds : nodes[n].kind = "GroupNode"}
Named(name) == {n \in NodeIds : nodes[n].name = name}
ParentOf(n) == CHOOSE g \in NodeIds : n \in Range(nodes[g].children)

\* the nodes visited when the last child is taken first, parents before children
RECURSIVE LifoWalk(_)
RECURSIVE LifoWalkAll(_, _)
LifoWalk(n) == <<n>> \o LifoWalkAll(nodes[n].children, Len(nodes[n].children))
LifoWalkAll(children, i) ==
    IF i = 0 THEN <<>> ELSE LifoWalk(children[i]) \o LifoWalkAll(children, i - 1)

\* the first node of a walk with the name, if any
FirstNamed(walk, name) ==
    IF \E i \in 1..Len(walk) : nodes[walk[i]].name = name
    THEN Some(walk[CHOOSE i \in 1..Len(walk) :
                      /\ nodes[walk[i]].name = name
                      /\ \A j \in 1..(i - 1) : nodes[walk[j]].name # name])
    ELSE None

AddOps == {"add_group_node", "add_render_node", "add_light_node"}
\* the nodes that were in the tree before the last call attached its child
Before == NodeIds \ {ret.child}

(***************************************************************************)
(* Claims settled under Spec.                                              *)
(***************************************************************************)
\* C1: add_child(None, node) makes the node the last child of the root, and
\* add_child(Some(name), node), when a GroupNode with that name is in the tree
\* (the root included), makes it the last child of a group with that name.
C1_AddChildAttaches ==
    ret.op \in AddOps =>
        /\ ret.parent = None =>
              /\ ret.outcome = "returned"
              /\ ret.child = Len(nodes)
              /\ Last(nodes[1].children) = ret.child
        /\ (/\ IsSome(ret.parent)
            /\ \E g \in Groups \cap Before : nodes[g].name = Unwrap(ret.parent)) =>
              /\ ret.outcome = "returned"
              /\ ret.child = Len(nodes)
              /\ \E g \in Groups \cap Before :
                    /\ nodes[g].name = Unwrap(ret.parent)
                    /\ nodes[g].children # <<>>
                    /\ Last(nodes[g].children) = ret.child

\* C2: for every name, find_child(name) and find_child_mut(Some(name)) resolve to
\* the same node or both to nothing.
C2_FindChildAgrees ==
    \A name \in LookupNames : find_child(nodes, name) = find_child_mut(nodes, Some(name))

\* C3: add_child with a name that resolves to a node that is not a GroupNode
\* fails; it never returns normally with the child dropped.
C3_NonGroupParentFails ==
    (/\ ret.op \in AddOps
     /\ IsSome(ret.target)
     /\ nodes[Unwrap(ret.target)].kind # "GroupNode") => ret.outcome = "panic"

\* C4: add_child with Some(name) where no node of the tree has that name panics:
\* the call does not return, no node is attached, and the light bind group, its
\* layout and lights_dirty are left as they were.
C4_MissingParentPanics ==
    [][(/\ ret'.op \in AddOps
        /\ IsSome(ret'.parent)
        /\ Named(Unwrap(ret'.parent)) = {}) =>
            /\ panicked'
            /\ ret'.outcome = "panic"
            /\ ret'.child = 0
            /\ UNCHANGED graphVars]_vars

\* C4 witness: add_light_node panicked on a name no node has, in a tree that has
\* other nodes and whose light bind group was never built
C4_Witness ==
    /\ panicked
    /\ ret.op = "add_light_node"
    /\ IsSome(ret.parent)
    /\ Named(Unwrap(ret.parent)) = {}
    /\ Len(nodes) >= 3
    /\ ~lights_dirty
    /\ light_bind_group = None

\* C8: find_child(name) returns a node exactly when some node of the tree, the
\* root or a node at any depth, has the name; the node returned has the name;
\* the loop pops every node at most once.
C8_FindChildIffNamed ==
    \A name \in LookupNames :
        LET r == find_child_deep(nodes, name)
        IN  /\ IsSome(r.node) <=> Named(name) # {}
            /\ IsSome(r.node) => Unwrap(r.node) \in Named(name)
            /\ r.pops <= Len(nodes)

\* C8 witness: find_child returned a node two levels below the root
C8_Witness ==
    /\ ret.op = "find_child"
    /\ IsSome(ret.target)
    /\ Unwrap(ret.target) # 1
    /\ ParentOf(Unwrap(ret.target)) # 1
    /\ nodes[Unwrap(ret.target)].name = ret.name

\* C9: find_child returns the first node with the name on the walk that takes
\* the last child first; of two siblings with the same name it never returns the
\* one inserted earlier, and returns the later one when no other node has the name.
C9_LaterSiblingWins ==
    \A name \in LookupNames :
        /\ find_child(nodes, name) = FirstNamed(LifoWalk(1), name)
        /\ \A g \in Groups : \A i, j \in 1..Len(nodes[g].children) :
              (/\ i < j
               /\ nodes[nodes[g].children[i]].name = name
               /\ nodes[nodes[g].children[j]].name = name) =>
                  /\ find_child(nodes, name) # Some(nodes[g].children[i])
                  /\ Cardinality(Named(name)) = 2 =>
                        find_child(nodes, name) = Some(nodes[g].children[j])

\* C9 witness: find_child was called with a name two siblings share, and returned
\* the one inserted later
C9_Witness ==
    /\ ret.op = "find_child"
    /\ \E g \in Groups : \E i, j \in 1..Len(nodes[g].children) :
          /\ i < j
          /\ nodes[nodes[g].children[i]].name = ret.name
          /\ nodes[nodes[g].children[j]].name = ret.name
          /\ ret.target = Some(nodes[g].children[j])

(***************************************************************************)
(* Claims settled under SpecXform and SpecIter.                            *)
(***************************************************************************)
\* the nodes from the root down to n, and the product of their local matrices
\* taken left to right
RECURSIVE PathFromRoot(_)
PathFromRoot(n) == IF n = 1 THEN <<1>> ELSE Append(PathFromRoot(ParentOf(n)), n)

RECURSIVE ProductAlong(_, _)
ProductAlong(path, k) ==
    IF k = 1 THEN nodes[path[1]].matrix
    ELSE Mat4Mul(ProductAlong(path, k - 1), nodes[path[k]].matrix)

WorldMatrix(n) == ProductAlong(PathFromRoot(n), Len(PathFromRoot(n)))

\* the kind of leaf the live iterator yields
LeafKind == IF iter.kind = "render" THEN "RenderNode" ELSE "LightNode"
Leaves(kind) == {n \in NodeIds : nodes[n].kind = kind}
YieldedIds == [k \in 1..Len(yielded) |-> yielded[k][1]]

\* C5: the matrix either iterator yields with a leaf is the product of the local
\* matrices on the path from the root to the leaf, root first and the leaf's own
\* matrix last; a light directly below a root, both with the default matrix, is
\* yielded with the identity.
C5_WorldMatrixIsPathProduct ==
    \A k \in 1..Len(yielded) :
        /\ yielded[k][2] = WorldMatrix(yielded[k][1])
        /\ (/\ iter.kind = "light"
            /\ ParentOf(yielded[k][1]) = 1
            /\ nodes[1].matrix = IDENTITY
            /\ nodes[yielded[k][1]].matrix = IDENTITY) => yielded[k][2] = IDENTITY

\* C5 witness: the render iterator yielded a leaf two levels down, where root,
\* group and leaf have matrices that do not commute
C5_Witness ==
    /\ iter.kind = "render"
    /\ \E k \in 1..Len(yielded) :
          LET leaf == yielded[k][1]
          IN  /\ ParentOf(leaf) # 1
              /\ nodes[1].matrix = TRANSLATE_X
              /\ nodes[ParentOf(leaf)].matrix = SCALE_2
              /\ nodes[leaf].matrix = TRANSLATE_X
              /\ yielded[k][2] =
                    Mat4Mul(Mat4Mul(TRANSLATE_X, SCALE_2), TRANSLATE_X)
              /\ yielded[k][2] #
                    Mat4Mul(Mat4Mul(TRANSLATE_X, TRANSLATE_X), SCALE_2)

\* C6: an iterator yields only leaves of its kind, none of them twice; once
\* next() has returned None every leaf of the kind has been yielded, the stack is
\* empty and every further next() returns None; a second iterator collected on
\* the same graph gives the same items in the same order.
C6_EachLeafOnceThenNone ==
    iter.kind # "none" =>
        /\ \A k \in 1..Len(yielded) : YieldedIds[k] \in Leaves(LeafKind)
        /\ \A k, l \in 1..Len(yielded) : YieldedIds[k] = YieldedIds[l] => k = l
        /\ iter.nones >= 1 =>
              /\ Range(YieldedIds) = Leaves(LeafKind)
              /\ Len(yielded) = Cardinality(Leaves(LeafKind))
              /\ iter.stack = <<>>
              /\ yielded = IF iter.kind = "render"
                           THEN RenderNodeIterator_collect(nodes, RenderNodeIterator_new)
                           ELSE LightNodeIterator_collect(nodes, LightNodeIterator_new)
        /\ (ret.op = "next" /\ iter.nones >= 2) => ret.target = None

\* C6 witness: the render iterator returned its two leaves and then None twice,
\* in a graph that also holds a light
C6_Witness ==
    /\ iter.kind = "render"
    /\ iter.nones = 2
    /\ Len(yielded) = 2
    /\ Leaves("LightNode") # {}

\* the leaves of the live iterator's kind in the subtree of n
RECURSIVE Subtree(_)
Subtree(n) == {n} \cup UNION {Subtree(c) : c \in Range(nodes[n].children)}
SubtreeLeaves(n) == Subtree(n) \cap Leaves(LeafKind)
Yielded(n) == n \in Range(YieldedIds)

\* C7: of two children of one group, every matching leaf in the subtree of the
\* child added later is yielded before any matching leaf in the subtree of the
\* child added earlier.
C7_LastChildFirst ==
    iter.kind # "none" =>
        \A g \in Groups : \A i, j \in 1..Len(nodes[g].children) :
            i < j =>
                \A x \in SubtreeLeaves(nodes[g].children[i]) :
                \A y \in SubtreeLeaves(nodes[g].children[j]) :
                    Yielded(x) =>
                        /\ Yielded(y)
                        /\ IndexOf(YieldedIds, y) < IndexOf(YieldedIds, x)

\* C7 witness: a render leaf below the root, then a group added after it with a
\* render leaf of its own: the group's leaf was yielded first
C7_Witness ==
    /\ iter.kind = "render"
    /\ Len(yielded) = 2
    /\ \E i, j \in 1..Len(nodes[1].children) :
          /\ i < j
          /\ nodes[1].children[i] = yielded[2][1]
          /\ nodes[nodes[1].children[j]].kind = "GroupNode"
          /\ ParentOf(yielded[1][1]) = nodes[1].children[j]

\* the buffer of a render node holds its matrix applied to its stored vertices
BufferMatches(node) ==
    /\ Len(node.vertex_buffer) = Len(node.vertices)
    /\ \A i \in 1..Len(node.vertices) :
          /\ node.vertex_buffer[i].pos = transform_point3(node.matrix, node.vertices[i].pos)
          /\ node.vertex_buffer[i].tex_coords = node.vertices[i].tex_coords
          /\ node.vertex_buffer[i].normal = node.vertices[i].normal

\* C10: the vertex buffer of every render node is its local matrix applied to the
\* positions of the stored untransformed vertices, with tex_coords and normal as
\* stored, in every state and right after RenderNode::new; the stored vertices
\* are the mesh the node was built from.
C10_VertexBufferIsMatrixOfVertices ==
    /\ \A n \in Leaves("RenderNode") :
          /\ BufferMatches(nodes[n])
          /\ nodes[n].vertices \in {m.vertices : m \in Meshes}
    /\ \A m \in Meshes :
          BufferMatches(RenderNode_new("n", m.vertices, m.indices, None))

\* C10 witness: set_matrix was called on a render node that was built with
\* another matrix, and its buffer now differs from the stored vertices
C10_Witness ==
    /\ ret.op = "RenderNode::set_matrix"
    /\ \E n \in Leaves("RenderNode") :
          /\ nodes[n].matrix = SCALE_2
          /\ nodes[n].vertex_buffer # nodes[n].vertices
          /\ nodes[n].vertices = OneVertex
          /\ nodes[n].vertex_buffer[1].pos = <<2, 4, 6>>


(***************************************************************************)
(* Claims on RenderNode::set_matrix as a step, settled under SpecXform.    *)
(***************************************************************************)
\* the buffer set_matrix(matrix) gives on a node that RenderNode::new has just
\* built from the node's stored vertices: set_matrix(matrix) alone
SetMatrixAlone(node, matrix) ==
    LET fresh == RenderNode_new(node.name, node.vertices, node.index_buffer,
                                node.material_bind_group)
    IN  [i \in 1..Len(fresh.vertices) |->
            [fresh.vertices[i] EXCEPT
                !.pos = transform_point3(matrix, fresh.vertices[i].pos)]]

\* C11: RenderNode::set_matrix is idempotent and history-free: a call with the
\* matrix the node already has leaves the buffer as it is, a call with any matrix
\* gives the buffer that the same call gives on a newly built node, whatever was
\* set before; the stored vertices, the index buffer, num_elements and the
\* material binding are left unchanged by every call.
C11_SetMatrixHistoryFree ==
    [][\A n \in NodeIds : \A matrix \in Matrices :
          SetMatrix(n, matrix) =>
              /\ nodes'[n].vertices = nodes[n].vertices
              /\ nodes'[n].index_buffer = nodes[n].index_buffer
              /\ nodes'[n].num_elements = nodes[n].num_elements
              /\ nodes'[n].material_bind_group = nodes[n].material_bind_group
              /\ nodes[n].matrix = matrix =>
                    nodes'[n].vertex_buffer = nodes[n].vertex_buffer
              /\ nodes'[n].vertex_buffer = SetMatrixAlone(nodes[n], matrix)
              /\ \A again \in Matrices :
                    RenderNode_set_matrix(nodes'[n], again).vertex_buffer =
                        SetMatrixAlone(nodes[n], again)]_vars

\* C11 witness: set_matrix has given a render node built from the cube edge the
\* translation: the buffer holds the stored vertices moved by one along x
C11_Witness ==
    /\ ret.op = "RenderNode::set_matrix"
    /\ \E n \in Leaves("RenderNode") :
          /\ nodes[n].matrix = TRANSLATE_X
          /\ nodes[n].vertices = CubeEdge
          /\ nodes[n].vertex_buffer[1].pos = <<0, -1, 1>>
          /\ nodes[n].vertex_buffer[2].pos = <<2, -1, 1>>
          /\ nodes[n].num_elements = 3

(***************************************************************************)
(* Claims on the light bind group and the frame, settled under SpecFrame.  *)
(***************************************************************************)
LightUpdates == {"update_light_bind_group", "update_light_bind_group_layout"}

\* C12: whenever the graph holds no LightNode, light_bind_group and
\* light_bind_group_layout are both None; so they are after
\* update_light_bind_group or update_light_bind_group_layout ran on a graph
\* without lights.
C12_NoLightsNoBindGroup ==
    Leaves("LightNode") = {} =>
        /\ light_bind_group = None
        /\ light_bind_group_layout = None
        /\ ret.op \in LightUpdates =>
              light_bind_group = None /\ light_bind_group_layout = None

\* the number of LightNodes in a tree
LightCount(ns) == Cardinality({i \in 1..Len(ns) : ns[i].kind = "LightNode"})

\* C13: after every add_light_node that attaches a light, light_bind_group and
\* light_bind_group_layout are both present and both replaced by that call: they
\* are not the bind group and layout that were active before, the bind group is
\* built over the new layout, and binding 0 of the new layout has as its count
\* the number of LightNodes now in the graph; a second light changes the count
\* from 1 to 2.
C13_AddLightRebuilds ==
    [][(ret'.op = "add_light_node" /\ ret'.child # 0) =>
          /\ IsSome(light_bind_group')
          /\ IsSome(light_bind_group_layout')
          /\ light_bind_group' # light_bind_group
          /\ light_bind_group_layout' # light_bind_group_layout
          /\ Unwrap(light_bind_group').layout = Unwrap(light_bind_group_layout')
          /\ Unwrap(light_bind_group_layout').binding0_count = Some(LightCount(nodes'))
          /\ LightCount(nodes') = LightCount(nodes) + 1
          /\ LightCount(nodes') = 2 =>
                /\ light_bind_group_layout = Some([binding0_count |-> Some(1)])
                /\ light_bind_group_layout' = Some([binding0_count |-> Some(2)])]_vars

\* C13 witness: add_light_node has attached a second light below a group: the
\* layout counts two lights and the bind group holds two light uniforms
C13_Witness ==
    /\ ret.op = "add_light_node"
    /\ ret.child = Len(nodes)
    /\ ret.target # Some(1)
    /\ LightCount(nodes) = 2
    /\ light_bind_group_layout = Some([binding0_count |-> Some(2)])
    /\ Len(Unwrap(light_bind_group).light_buffer) = 2
    /\ lights_dirty

\* C15: the shadow map layer of every light's target view is the light's index
\* in the packed light array that update_light_bind_group builds, also after
\* further lights were added.
C15_LayerIsArrayIndex ==
    LET lights == get_light_nodes(nodes)
    IN  \A k \in 1..Len(lights) : nodes[lights[k][1]].light.target_view = k - 1

\* the packed light array as the graph is now: for every light, in the order of
\* the light iterator, its position and the product of the matrices above it
CurrentLightArray ==
    LET lights == get_light_nodes(nodes)
    IN  [k \in 1..Len(lights) |->
            from_light(nodes[lights[k][1]].light, WorldMatrix(lights[k][1]))]

\* the last call was App::draw on a Renderer with a surface texture, and returned
FrameDrawn ==
    /\ ret.op = "draw"
    /\ ret.outcome = "returned"
    /\ ret.calls # <<>>

\* where in the frame the light bind group is bound
LightBinds(calls) ==
    {i \in 1..Len(calls) : calls[i].call = "set_bind_group" /\ calls[i].slot = 3}

\* C14: a scene without light nodes is set up and drawn without a panic:
\* building the Renderer on resume and drawing a frame, once the surface has
\* given its texture, both return.
C14_NoLightsNoPanic ==
    Leaves("LightNode") = {} =>
        /\ ret.op = "resumed" => ret.outcome = "returned"
        /\ (ret.op = "draw" /\ ret.calls # <<>> /\ ret.calls[1].arg = "Ok") =>
              ret.outcome = "returned"

\* C16: whenever a frame was drawn, the light array of the bind group bound for
\* the forward pass is the array of the graph's lights as they are, and a bind
\* group is bound when the graph has lights.
C16_DrawnLightsAreCurrent ==
    FrameDrawn =>
        \A i \in LightBinds(ret.calls) :
            /\ Leaves("LightNode") # {} => IsSome(ret.calls[i].arg)
            /\ IsSome(ret.calls[i].arg) =>
                  Unwrap(ret.calls[i].arg).light_buffer = CurrentLightArray

\* the calls that build the light bind group
LightBuilds(calls) ==
    {i \in 1..Len(calls) :
        calls[i].call \in {"update_light_bind_group", "create_bind_group"}}

\* C17: when lights_dirty is true as a frame begins, the frame builds the light
\* bind group before it binds it for the forward pass.
C17_DirtyLightsRebuiltInFrame ==
    [][(/\ lights_dirty
        /\ ret'.op = "draw"
        /\ ret'.outcome = "returned"
        /\ ret'.calls # <<>>) =>
            \A i \in LightBinds(ret'.calls) :
                \E b \in LightBuilds(ret'.calls) : b < i]_vars

(***************************************************************************)
(* Claims on the calls of a frame, settled under SpecDraw.                 *)
(***************************************************************************)
\* where in the frame a call is made on an object
At(calls, on, call) ==
    {i \in 1..Len(calls) : calls[i].on = on /\ calls[i].call = call}
\* the passes begun for a light (its shadow sub-pass) and the pass begun for none
ShadowBegins(calls) == {i \in At(calls, "encoder", "begin_render_pass") : calls[i].node # 0}
ForwardBegins(calls) == {i \in At(calls, "encoder", "begin_render_pass") : calls[i].node = 0}

\* C19: in a frame every light gets one shadow sub-pass, all of them recorded and
\* ended before the forward pass begins; the forward pass is recorded, then the
\* commands are submitted, then the frame is presented, then on_frame_update
\* runs, as the last call and once; a draw that does not complete never runs it.
C19_FrameOrder ==
    ret.op = "draw" =>
        LET c == ret.calls
            Update == At(c, "scene_graph", "on_frame_update")
        IN  /\ ~FrameDrawn => Update = {}
            /\ FrameDrawn =>
                  /\ {c[i].node : i \in ShadowBegins(c)} = Leaves("LightNode")
                  /\ Cardinality(ShadowBegins(c)) = Cardinality(Leaves("LightNode"))
                  /\ Cardinality(At(c, "shadow", "end_render_pass")) =
                        Cardinality(ShadowBegins(c))
                  /\ Cardinality(ForwardBegins(c)) = 1
                  /\ Cardinality(At(c, "forward", "end_render_pass")) = 1
                  /\ Cardinality(At(c, "queue", "submit")) = 1
                  /\ Cardinality(At(c, "frame", "present")) = 1
                  /\ Update = {Len(c)}
                  /\ ~lights_dirty
                  /\ \A f \in ForwardBegins(c) :
                        /\ \A i \in 1..Len(c) : c[i].on = "shadow" => i < f
                        /\ \A s \in ShadowBegins(c) : s < f
                        /\ \A e \in At(c, "forward", "end_render_pass") :
                              /\ f < e
                              /\ \A i \in 1..Len(c) : c[i].on = "forward" => f < i /\ i <= e
                              /\ \A s \in At(c, "queue", "submit") :
                                    /\ e < s
                                    /\ \A p \in At(c, "frame", "present") :
                                          s < p /\ p < Len(c)

\* C19 witness: a frame was drawn for a graph with two lights and a render node:
\* two shadow sub-passes, each drawing the node, before the forward pass
C19_Witness ==
    /\ FrameDrawn
    /\ Cardinality(Leaves("LightNode")) = 2
    /\ Cardinality(Leaves("RenderNode")) = 1
    /\ Cardinality(ShadowBegins(ret.calls)) = 2
    /\ Cardinality(At(ret.calls, "shadow", "draw_indexed")) = 2
    /\ Cardinality(At(ret.calls, "forward", "draw_indexed")) = 1

\* the draws of a frame and the writes to the shared model matrix buffer
Draws(calls) == {i \in 1..Len(calls) : calls[i].call = "draw_indexed"}
MatrixWrites(calls) ==
    {i \in 1..Len(calls) :
        calls[i].call = "write_buffer" /\ calls[i].buffer = "model_matrix_buffer"}
\* the last call of a set before position d (0: none)
LastBefore(set, d) ==
    IF \E i \in set : i < d
    THEN CHOOSE i \in set : i < d /\ \A j \in set : j < d => j <= i
    ELSE 0

\* C20: in the calls of draw_scenegraph and of draw_scenegraph_vertices, every
\* indexed draw of a render node comes after a write of that node's world matrix
\* to the model matrix buffer, with no other write to that buffer and no other
\* draw between the two; the vertex and index buffers bound for the draw are
\* bound after the draw before it, on the same pass, and are the node's buffers
\* as they are, and the draw covers the node's num_elements.
C20_WriteBeforeEachDraw ==
    FrameDrawn =>
        LET c == ret.calls
        IN  \A d \in Draws(c) :
                LET n == c[d].node
                    w == LastBefore(MatrixWrites(c), d)
                    v == LastBefore(At(c, c[d].on, "set_vertex_buffer"), d)
                    x == LastBefore(At(c, c[d].on, "set_index_buffer"), d)
                    before == LastBefore(Draws(c), d)
                IN  /\ nodes[n].kind = "RenderNode"
                    /\ w # 0 /\ v # 0 /\ x # 0
                    /\ c[w].node = n
                    /\ c[w].arg = ModelUniform(WorldMatrix(n))
                    /\ before < w /\ before < v /\ before < x
                    /\ c[v].node = n
                    /\ c[v].arg = nodes[n].vertex_buffer
                    /\ c[x].node = n
                    /\ c[x].arg = nodes[n].index_buffer
                    /\ c[d].arg = nodes[n].num_elements

\* C20 witness: a frame was drawn for a light and two render nodes whose world
\* matrices differ: each node is drawn in the shadow sub-pass and in the forward
\* pass
C20_Witness ==
    /\ FrameDrawn
    /\ Cardinality(Leaves("LightNode")) = 1
    /\ \E m, n \in Leaves("RenderNode") :
          /\ WorldMatrix(m) # WorldMatrix(n)
          /\ WorldMatrix(n) # nodes[n].matrix
          /\ \E i, j \in At(ret.calls, "shadow", "draw_indexed") :
                ret.calls[i].node = m /\ ret.calls[j].node = n
          /\ \E i, j \in At(ret.calls, "forward", "draw_indexed") :
                ret.calls[i].node = m /\ ret.calls[j].node = n

(***************************************************************************)
(* Claims on add_model_node, settled under SpecModel.                      *)
(***************************************************************************)
\* the last call was add_model_node with a parent that is None or the name of a
\* GroupNode in the tree, and a model whose meshes index materials it has
ModelNodeCalled ==
    /\ ret.op = "add_model_node"
    /\ \/ ret.parent = None
       \/ \E g \in Groups : g <= ret.before /\ nodes[g].name = Unwrap(ret.parent)
    /\ \A i \in 1..Len(ret.model.meshes) :
          ret.model.meshes[i].material < Len(ret.model.materials)

\* C18: add_model_node adds one RenderNode per mesh of the model, all as the
\* last children of one parent with the name given (the root for None), in mesh
\* order, each named "<name>-<mesh name>", each with the matrix in its vertex
\* buffer and with the bind group of the material its mesh indexes; a model of k
\* meshes adds k render leaves.
C18_ModelNodePerMesh ==
    ModelNodeCalled =>
        LET k == Len(ret.model.meshes)
            added == [i \in 1..k |-> ret.before + i]
        IN  /\ ret.outcome = "returned"
            /\ Len(nodes) = ret.before + k
            /\ \E p \in Groups :
                  /\ p <= ret.before
                  /\ ret.parent = None => p = 1
                  /\ IsSome(ret.parent) => nodes[p].name = Unwrap(ret.parent)
                  /\ Len(nodes[p].children) >= k
                  /\ SubSeq(nodes[p].children, Len(nodes[p].children) - k + 1,
                            Len(nodes[p].children)) = added
            /\ \A i \in 1..k :
                  LET mesh == ret.model.meshes[i]
                      node == nodes[added[i]]
                  IN  /\ node.kind = "RenderNode"
                      /\ node.name = ret.name \o "-" \o mesh.name
                      /\ node.matrix = ret.matrix
                      /\ node.vertices = mesh.vertices
                      /\ BufferMatches(node)
                      /\ node.index_buffer = mesh.indices
                      /\ node.num_elements = Len(mesh.indices)
                      /\ node.material_bind_group =
                            Material_create_bind_group(
                                ret.model.materials[mesh.material + 1])

(***************************************************************************)
(* Claims on the frame as the submitted commands execute.                  *)
(***************************************************************************)
\* two render nodes of the scene have different world matrices
DistinctWorldMatrices ==
    \E m, n \in Leaves("RenderNode") : WorldMatrix(m) # WorldMatrix(n)

\* C21: when the commands of a frame execute, every indexed draw finds in the
\* model matrix buffer the world matrix of the node it draws, in scenes where
\* two render nodes have different world matrices.
C21_DrawObservesOwnMatrix ==
    (FrameDrawn /\ DistinctWorldMatrices) =>
        \A d \in Draws(ret.calls) :
            buffer_at_submit(ret.calls, "model_matrix_buffer") =
                Some(ModelUniform(WorldMatrix(ret.calls[d].node)))

\* the writes of a frame to a buffer
WritesTo(calls, buffer) ==
    {i \in 1..Len(calls) : calls[i].call = "write_buffer" /\ calls[i].buffer = buffer}

\* C22: in a frame the shadow pass writes, for every light, the light's camera
\* uniform to sp_camera_buffer and binds sp_camera_bind_group for the light's
\* sub-pass; camera_buffer is written once in the frame, outside the shadow
\* pass, with the main camera's uniform.
C22_ShadowCameraBufferIsItsOwn ==
    FrameDrawn =>
        LET c == ret.calls
        IN  /\ \A l \in Leaves("LightNode") :
                  /\ \E i \in WritesTo(c, "sp_camera_buffer") :
                        /\ c[i].node = l
                        /\ c[i].arg = to_camera_uniform(nodes[l].light, WorldMatrix(l))
                  /\ \E i \in At(c, "shadow", "set_bind_group") :
                        /\ c[i].node = l
                        /\ c[i].slot = 0
                        /\ c[i].arg = Some("sp_camera_bind_group")
            /\ Cardinality(WritesTo(c, "camera_buffer")) = 1
            /\ \A i \in WritesTo(c, "camera_buffer") :
                  c[i].node = 0 /\ c[i].arg = "camera_uniform"

(***************************************************************************)
(* Claims on the shadow pass, settled under SpecDraw.                      *)
(***************************************************************************)
\* the calls of a frame made for a light node: the begin and the end of its
\* sub-pass and the write of its camera uniform
CallsFor(calls, call, light) ==
    {i \in 1..Len(calls) : calls[i].call = call /\ calls[i].node = light}
\* the one member of a set of one position
The(set) == CHOOSE i \in set : TRUE

\* C23: the shadow pass handles the lights one after the other, in the order of
\* the light iterator: every light has one sub-pass and one write of its
\* view-projection; that write comes before every draw of the light's sub-pass;
\* every model matrix write and draw of the sub-pass comes before the
\* view-projection write of the next light; every sub-pass draws every render
\* node once, and no shadow draw or model matrix write of the shadow pass lies
\* outside the sub-passes.
C23_LightsOneAfterTheOther ==
    FrameDrawn =>
        LET c == ret.calls
            lights == get_light_nodes(nodes)
            begin(k) == CallsFor(c, "begin_render_pass", lights[k][1])
            end(k) == CallsFor(c, "end_render_pass", lights[k][1])
            vp(k) == CallsFor(c, "write_buffer", lights[k][1])
            inside(k) == {i \in 1..Len(c) : The(begin(k)) < i /\ i < The(end(k))}
            work(k) == inside(k) \cap (Draws(c) \cup MatrixWrites(c))
            forward == The(ForwardBegins(c))
        IN  /\ Cardinality(ShadowBegins(c)) = Len(lights)
            /\ \A k \in 1..Len(lights) :
                  /\ Cardinality(begin(k)) = 1
                  /\ Cardinality(end(k)) = 1
                  /\ Cardinality(vp(k)) = 1
                  /\ c[The(vp(k))].arg =
                        to_camera_uniform(nodes[lights[k][1]].light, lights[k][2])
                  /\ The(begin(k)) < The(vp(k))
                  /\ The(vp(k)) < The(end(k))
                  /\ \A i \in work(k) : The(vp(k)) < i
                  /\ k < Len(lights) =>
                        /\ The(end(k)) < The(begin(k + 1))
                        /\ \A i \in work(k) : i < The(vp(k + 1))
                  /\ {c[d].node : d \in inside(k) \cap Draws(c)} = Leaves("RenderNode")
                  /\ Cardinality(inside(k) \cap Draws(c)) =
                        Cardinality(Leaves("RenderNode"))
                  /\ \A d \in inside(k) \cap Draws(c) : c[d].on = "shadow"
            /\ \A i \in Draws(c) \cup MatrixWrites(c) :
                  i < forward => \E k \in 1..Len(lights) : i \in inside(k)

\* C23 witness: a frame was drawn for two lights and a render node: two
\* sub-passes, each with its view-projection write and a draw of the node
C23_Witness ==
    /\ FrameDrawn
    /\ Len(get_light_nodes(nodes)) = 2
    /\ Cardinality(Leaves("RenderNode")) = 1
    /\ Cardinality({i \in WritesTo(ret.calls, "camera_buffer") :
                        ret.calls[i].node # 0}) = 2
    /\ Cardinality(At(ret.calls, "shadow", "draw_indexed")) = 2
    /\ \E i, j \in WritesTo(ret.calls, "camera_buffer") :
          /\ ret.calls[i].node # 0 /\ ret.calls[j].node # 0
          /\ \E d \in At(ret.calls, "shadow", "draw_indexed") : i < d /\ d < j

(***************************************************************************)
(* Claims on the packed light array, settled under SpecLightArray.         *)
(***************************************************************************)
\* the light nodes in the order of a walk that takes the last child first
LightsInWalkOrder ==
    LET IsLight(n) == nodes[n].kind = "LightNode"
    IN  SelectSeq(LifoWalk(1), IsLight)

\* the last call ran update_light_bind_group to its end
LightArrayBuilt ==
    /\ ret.op \in {"update_light_bind_group", "add_light_node"}
    /\ ret.outcome = "returned"

\* the view-projections the shadow pass writes for a light node, as the graph is
ShadowViewProj(light) ==
    LET c == render_shadow_pass(nodes)
    IN  {c[i].arg.view_proj : i \in CallsFor(c, "write_buffer", light)}

\* C24: the packed light array that update_light_bind_group builds has one
\* element per LightNode of the graph; its i-th element is made of the i-th light
\* of the light iterator: the light's position and colour, the light's world
\* matrix as model matrix, and the view-projection computed from that world
\* matrix, which is the view-projection the shadow pass computes for that light
\* while the graph is as it was.
C24_LightArrayIsPacked ==
    LightArrayBuilt =>
        LET array == Unwrap(light_bind_group).light_buffer
            lights == LightsInWalkOrder
        IN  /\ IsSome(light_bind_group)
            /\ Len(array) = LightCount(nodes)
            /\ Len(array) = Len(lights)
            /\ \A i \in 1..Len(lights) :
                  LET light == nodes[lights[i]].light
                  IN  /\ array[i].pos = light.pos \o <<1>>
                      /\ array[i].color = light.color
                      /\ array[i].model_mat = WorldMatrix(lights[i])
                      /\ array[i].view_proj = calculate_matrix(light, WorldMatrix(lights[i]))
                      /\ ShadowViewProj(lights[i]) = {array[i].view_proj}

\* C24 witness: the array was built for two lights below a group that is moved,
\* one of them moved itself
C24_Witness ==
    /\ ret.op = "update_light_bind_group"
    /\ Len(Unwrap(light_bind_group).light_buffer) = 2
    /\ \E g \in Groups \ {1} :
          /\ nodes[g].matrix = TRANSLATE_X
          /\ Len(nodes[g].children) = 2
          /\ \E m, n \in Range(nodes[g].children) :
                /\ nodes[m].kind = "LightNode" /\ nodes[n].kind = "LightNode"
                /\ nodes[m].matrix = TRANSLATE_X
                /\ nodes[n].matrix = IDENTITY

(***************************************************************************)
(* Claims on lights_dirty and the frame-end hook, settled under SpecDirty. *)
(***************************************************************************)
\* the step ran update_light_bind_group: on its own, or in an add_light_node
\* that did not panic
RanUpdateLightBindGroup ==
    \/ ret'.op = "update_light_bind_group"
    \/ ret'.op = "add_light_node" /\ ret'.outcome = "returned"

\* the step ran on_frame_update: on its own, or at the end of a drawn frame
RanOnFrameUpdate ==
    \/ ret'.op = "on_frame_update"
    \/ ret'.op = "draw" /\ ret'.outcome = "returned" /\ ret'.calls # <<>>

\* the calls of the callback in a sequence of calls
CallbackCalls(calls) == {i \in 1..Len(calls) : calls[i].on = "callback"}

\* C25: lights_dirty is false on a new graph, true after every
\* update_light_bind_group (on its own or through add_light_node), false after
\* every on_frame_update, and changed by nothing else: it is true exactly when
\* an update ran since the last on_frame_update.  on_frame_update calls the
\* registered callback once, after the flag is cleared, and calls nothing when
\* no callback is registered.
C25_DirtySinceLastFrameUpdate ==
    /\ ~lights_dirty
    /\ [][/\ RanUpdateLightBindGroup => lights_dirty'
          /\ RanOnFrameUpdate =>
                /\ ~lights_dirty'
                /\ Cardinality(CallbackCalls(ret'.calls)) =
                      (IF IsSome(on_frame_update_callback) THEN 1 ELSE 0)
                /\ \A i \in CallbackCalls(ret'.calls) :
                      /\ ret'.calls[i].arg.callback = Unwrap(on_frame_update_callback)
                      /\ ret'.calls[i].arg.lights_dirty = FALSE
                      /\ i = Len(ret'.calls)
          /\ (~RanUpdateLightBindGroup /\ ~RanOnFrameUpdate) =>
                lights_dirty' = lights_dirty]_vars

\* C25 witness: on_frame_update ran on a graph whose light bind group had been
\* rebuilt, with a callback registered: the flag is clear and the callback was
\* called once
C25_Witness ==
    /\ ret.op = "on_frame_update"
    /\ IsSome(light_bind_group)
    /\ Leaves("LightNode") # {}
    /\ on_frame_update_callback = Some("cb2")
    /\ Cardinality(CallbackCalls(ret.calls)) = 1
    /\ ~lights_dirty

(***************************************************************************)
(* Claims on the number of lights, settled under SpecManyLights.           *)
(***************************************************************************)
\* C26: add_light_node does not check the number of lights against
\* ShadowMap::MAX_LIGHTS: called with a parent that is found and is a group on a
\* graph that holds MAX_LIGHTS lights or more, it returns, the light is
\* attached, the graph holds one light more, and the light bind group and its
\* layout are rebuilt for that number.
C26_NoLightCapacityCheck ==
    [][(/\ ret'.op = "add_light_node"
        /\ LightCount(nodes) >= MAX_LIGHTS
        /\ IsSome(ret'.target)
        /\ nodes[Unwrap(ret'.target)].kind = "GroupNode") =>
            /\ ret'.outcome = "returned"
            /\ ~panicked'
            /\ ret'.child = Len(nodes) + 1
            /\ nodes'[ret'.child].kind = "LightNode"
            /\ LightCount(nodes') = LightCount(nodes) + 1
            /\ light_bind_group_layout' =
                  Some(get_bind_group_layout(LightCount(nodes')))
            /\ IsSome(light_bind_group')
            /\ Len(Unwrap(light_bind_group').light_buffer) = LightCount(nodes')
            /\ Unwrap(light_bind_group').layout = Unwrap(light_bind_group_layout')
            /\ lights_dirty']_vars

\* C26 witness: add_light_node has attached a light beyond MAX_LIGHTS, built for
\* a layer another light has; layout and bind group count MAX_LIGHTS + 1 lights
C26_Witness ==
    /\ ret.op = "add_light_node"
    /\ ret.outcome = "returned"
    /\ ret.child = Len(nodes)
    /\ LightCount(nodes) = MAX_LIGHTS + 1
    /\ \E l \in Leaves("LightNode") \ {ret.child} :
          nodes[l].light.target_view = nodes[ret.child].light.target_view
    /\ light_bind_group_layout = Some([binding0_count |-> Some(MAX_LIGHTS + 1)])
    /\ Len(Unwrap(light_bind_group).light_buffer) = MAX_LIGHTS + 1

(***************************************************************************)
(* Claims on the shape of the graph over time, settled under SpecGrow.     *)
(***************************************************************************)
\* a sequence begins with another
IsPrefix(short, long) ==
    /\ Len(short) <= Len(long)
    /\ SubSeq(long, 1, Len(short)) = short

\* the nodes a step has added
Added == (1..Len(nodes')) \ NodeIds

\* C27: a new graph has a root without children, no light bind group, no layout
\* and lights_dirty false; the root always is a GroupNode named "root"; no call
\* removes or moves a node: every node stays what it is and where it is, a
\* group's children are only added to at the end, and every node a call adds is
\* the child of one group, once.
C27_GraphOnlyGrows ==
    /\ nodes = <<GroupNode_new("root")>>
    /\ nodes[1].children = <<>>
    /\ light_bind_group = None
    /\ light_bind_group_layout = None
    /\ ~lights_dirty
    /\ [](nodes[1].kind = "GroupNode" /\ nodes[1].name = "root")
    /\ [][/\ Len(nodes') >= Len(nodes)
          /\ \A n \in NodeIds :
                /\ nodes'[n].kind = nodes[n].kind
                /\ nodes'[n].name = nodes[n].name
                /\ IsPrefix(nodes[n].children, nodes'[n].children)
                /\ \A k \in (Len(nodes[n].children) + 1)..Len(nodes'[n].children) :
                      nodes'[n].children[k] \in Added
          /\ \A a \in Added :
                /\ nodes'[a].children = <<>>
                /\ Cardinality({<<g, k>> \in NodeIds \X (1..Len(nodes')) :
                        /\ k <= Len(nodes'[g].children)
                        /\ nodes'[g].children[k] = a}) = 1]_vars

\* C27 witness: a model of two meshes was added below a group that had a child
\* already, after a matrix was set on the group and the frame-end hook had run
\* with a light in the graph
C27_Witness ==
    /\ ret.op = "add_model_node"
    /\ ret.outcome = "returned"
    /\ Len(nodes) = ret.before + 2
    /\ Leaves("LightNode") # {}
    /\ ~lights_dirty
    /\ \E g \in Groups :
          /\ nodes[g].matrix = TRANSLATE_X
          /\ Len(nodes[g].children) = 3
          /\ nodes[g].children[1] <= ret.before
          /\ nodes[g].children[2] = ret.before + 1
          /\ nodes[g].children[3] = ret.before + 2

(***************************************************************************)
(* Claims on a frame without a surface texture, settled under SpecDraw.    *)
(***************************************************************************)
\* the step is an App::draw on a Renderer whose surface gave no texture
AcquireFailed ==
    /\ ret'.op = "draw"
    /\ renderer.kind = "Renderer"
    /\ ret'.calls # <<>>
    /\ ret'.calls[1].call = "get_current_texture"
    /\ ret'.calls[1].arg = "Err"

\* C28: when the surface gives no texture at the start of App::draw, the frame
\* ends there: get_current_texture is the only call made (nothing is recorded,
\* written, submitted or presented, on_frame_update does not run), the graph,
\* lights_dirty and the application's state are as before, and no call follows:
\* the frame is not kept and not tried again.
C28_NoTextureNoFrame ==
    /\ [][AcquireFailed =>
            /\ Len(ret'.calls) = 1
            /\ ret'.outcome = "panic"
            /\ lights_dirty' = lights_dirty
            /\ UNCHANGED <<nodes, light_bind_group, light_bind_group_layout,
                           on_frame_update_callback, renderer, events>>
            /\ panicked']_vars
    /\ [][~panicked]_vars

\* C28 witness: a draw found no surface texture while lights_dirty was set, in a
\* scene with a light and a render node
C28_Witness ==
    /\ ret.op = "draw"
    /\ ret.outcome = "panic"
    /\ ret.calls[1].arg = "Err"
    /\ renderer.kind = "Renderer"
    /\ lights_dirty
    /\ Leaves("LightNode") # {}
    /\ Leaves("RenderNode") # {}

(***************************************************************************)
(* Claims on where a drawn vertex ends up, settled under SpecDraw.         *)
(***************************************************************************)
\* C29: for every drawn render node with a local matrix other than the identity,
\* the vertex stage, given the vertex buffer bound for the draw and the model
\* matrix written for the draw, puts every vertex where the node's world matrix
\* puts the untransformed vertex: the local matrix counts once.
C29_LocalMatrixCountsOnce ==
    FrameDrawn =>
        LET c == ret.calls
        IN  \A d \in Draws(c) :
                LET n == c[d].node
                    w == LastBefore(MatrixWrites(c), d)
                    v == LastBefore(At(c, c[d].on, "set_vertex_buffer"), d)
                IN  nodes[n].matrix # IDENTITY =>
                        /\ Len(c[v].arg) = Len(nodes[n].vertices)
                        /\ \A i \in 1..Len(nodes[n].vertices) :
                              vs_main(c[w].arg, c[v].arg[i].pos) =
                                  transform_point3(WorldMatrix(n),
                                                   nodes[n].vertices[i].pos)

(***************************************************************************)
(* Claims on the start of the application, settled under SpecApp.          *)
(***************************************************************************)
\* the event loop proxy is there to build a Renderer with
ProxyUnspent == renderer.kind = "Proxy" /\ renderer.event_loop_proxy

\* the step started the construction of the graphics: a Renderer was built and
\* sent, or building it panicked
ConstructionStarted ==
    \/ Len(events') > Len(events)
    \/ ret'.op = "resumed" /\ ret'.outcome = "panic"

\* C30: the application starts with a proxy and without a Renderer.  The
\* construction of the graphics is started by a resumed that finds the proxy
\* unspent, and spends it: it is never started again, however often resumed
\* fires, and a resumed after that changes nothing; at most one Renderer is ever
\* built.  While no Renderer is installed, draw and resized change nothing and
\* draw makes no call.  user_event installs the Renderer built, and the
\* application never goes back to the proxy.
C30_StartUp ==
    /\ renderer = RenderProxy_new
    /\ events = <<>>
    /\ [](Len(events) + (IF renderer.kind = "Renderer" THEN 1 ELSE 0) <= 1)
    /\ [][/\ ConstructionStarted =>
                /\ ret'.op = "resumed"
                /\ ProxyUnspent
                /\ ~ProxyUnspent'
          /\ ~ProxyUnspent => ~ProxyUnspent'
          /\ (ret'.op = "resumed" /\ ~ProxyUnspent) =>
                /\ ret'.outcome = "returned"
                /\ UNCHANGED <<graphVars, callbackVars, renderer, events, panicked>>
          /\ (ret'.op \in {"draw", "resized"} /\ renderer.kind = "Proxy") =>
                /\ ret'.outcome = "returned"
                /\ ret'.op = "draw" => ret'.calls = <<>>
                /\ UNCHANGED <<graphVars, callbackVars, renderer, events, panicked>>
          /\ (renderer.kind = "Proxy" /\ renderer'.kind = "Renderer") =>
                /\ ret'.op = "user_event"
                /\ events # <<>>
                /\ renderer' = Head(events)
          /\ renderer.kind = "Renderer" => renderer'.kind = "Renderer"]_vars

\* C30 witness: resumed fired again after the Renderer was installed, resized
\* and had drawn a frame, and did nothing
C30_Witness ==
    /\ ret.op = "resumed"
    /\ ret.outcome = "returned"
    /\ renderer.kind = "Renderer"
    /\ renderer.surface_config = Some(<<1024, 768>>)
    /\ events = <<>>
    /\ Leaves("LightNode") # {}
    /\ ~lights_dirty
====
